---- MODULE Spec2Model ----
(***************************************************************************)
(* Verification model of popdeuxrem/shadow-scripts.                        *)
(*                                                                         *)
(* One behaviour of the model is one run of one program of the repository: *)
(* a build orchestrator (the variants of scripts/build-all.sh), the        *)
(* fallback loader a build writes, or a config renderer.  `prog` names the *)
(* program; it is chosen in Init and never changes.                        *)
(*                                                                         *)
(* External tools (node generator scripts, javascript-obfuscator) are      *)
(* modelled by their observable outcome, chosen nondeterministically.      *)
(* Shell semantics (errexit, `||` lists, globbing) are modelled as bash    *)
(* executes them.                                                          *)
(***************************************************************************)
EXTENDS Integers, Sequences, FiniteSets, TLC

\* ------------------------------------------------------------------ bounds
\* Number of payload sources that may exist under src-scripts/.
MaxSrc == 3

\* ----------------------------------------------------------- payload names
\* Payload sources in glob order.  Sources 1 and 2 are src-scripts/a/x.js and
\* src-scripts/b/x.js; every further source has a base name of its own.
Srcs == 1..MaxSrc

\* basename "$file" .js
Base(s) == IF s = 1 THEN 2 ELSE s

Bases == {Base(s) : s \in Srcs}

\* A file of the output tree: absent, zero bytes, or holding the payload
\* derived from source `src`.
NoFile == [st |-> "absent", src |-> 0]

EmptyFile == [st |-> "empty", src |-> 0]

FullFile(s) == [st |-> "full", src |-> s]

\* The four config generators, in the order the orchestrators run them.
GENERATORS == <<"gen-shadowrocket.js", "gen-stash.js", "gen-loon.js", "gen-mobileconfig.js">>

\* manifest.json entries: a bare file name, a full path, the unexpanded glob
\* pattern "*.js.b64", or the empty string.
NameEntry(b) == [form |-> "name", base |-> b]

PathEntry(b) == [form |-> "path", base |-> b]

GlobEntry == [form |-> "glob", base |-> 0]

BlankEntry == [form |-> "blank", base |-> 0]

\* Sorted sequence of the elements of a finite set of integers.
RECURSIVE SortedSeq(_)
SortedSeq(S) ==
  IF S = {} THEN <<>>
  ELSE LET m == CHOOSE x \in S : \A y \in S : x <= y
       IN <<m>> \o SortedSeq(S \ {m})

\* Base names of the *.js.b64 files present in the obfuscated directory.
Present(dir) == {b \in Bases : dir[b].st # "absent"}

MapSeq(sq, F(_)) == [i \in 1..Len(sq) |-> F(sq[i])]

VARIABLES
  prog,       \* which program runs
  pc,         \* its current step
  exitCode,   \* -1 while running, else the process exit status
  failedOps,  \* history: the operations (step, input) that have failed
  retried,    \* history: operations attempted again after they had failed
  ranAfterFail, \* history: a step was executed after some step had failed
  srcs,       \* payload sources present under src-scripts/
  todo,       \* sources the obfuscation loop has not visited yet
  gi,         \* index of the next config generator
  haveJq,     \* jq is installed
  tpl,        \* scripts/manifest-loader.html (the index.html template)
  cache,      \* sources whose <base>-<hash>.js.b64 is in the cache directory
  PROCESSED,  \* payload counters of the caching orchestrator
  FAILED,
  b64,        \* obfuscated/<base>.js.b64 per base name
  manifest,   \* manifest.json: absent, or its list of entries
  loader,     \* public/scripts/mitm-loader.js: absent, generated or fallback
  index,      \* public/index.html
  wpc,        \* parallel pipeline: position of the worker of each source
  workerOut,  \* parallel pipeline: <base>.js.b64 as the workers address it
  writers,    \* history: the workers that have written each workerOut file
  nfiles,     \* loader: number of entries of the fetched manifest
  att,        \* loader: fetch attempts made so far, per manifest entry
  lst,        \* loader: idle, loaded or failed, per manifest entry
  batch,      \* loader: offset of the batch being loaded
  appended,   \* loader: the entries whose payload was appended, in order
  called,     \* loader: loadScript calls made so far, per manifest entry
  doc,        \* renderer: the parsed master-rules.yaml
  strict,     \* renderer: --strict was given
  conf,       \* renderer: the config file written
  warned,     \* renderer: input entries skipped with a warning
  haveYaml,   \* renderer: configs/master-rules.yaml exists
  stderr,     \* renderer: an error message was printed on stderr
  now,        \* renderer: the wall-clock time of the current run
  runs,       \* renderer: number of runs started on this input
  prev,       \* renderer: the config file the previous run wrote
  flags,      \* renderer: --dry, --split-rules and --emit-json as given
  stdout,     \* renderer: the config printed on standard output
  sideFiles,  \* renderer: rules/ fragments and metadata JSON written
  PROVIDER_PRESETS, \* mobileconfig: the module-level provider table
  ARGS,       \* mobileconfig: the parsed command line
  returned,   \* mobileconfig: what each call of the entry point returned
  ENABLE_COMPRESSION, \* process_payload: BUILD_COMPRESSION / --no-compression
  cache_file, \* process_payload: .build-cache/content/payload-<hash> per content
  encoded_file, \* process_payload: payloads/<base>.js.b64
  echoed,     \* process_payload: the result the last call printed
  builds,     \* process_payload: number of builds started
  argv,       \* --define: the command line after the script name
  environ,    \* --define: process.env, the value of each variable or ""
  substituted, \* --define: the YAML text after substituteVariables
  arr,        \* query loader: the array manifest.json holds
  query,      \* query loader: the items of ?inject= in location.href
  hash,       \* query loader: the items of #inject= in location.hash
  targets,    \* query loader: the names still to be handed to injectPayload
  fetched,    \* query loader: the names whose fetch gave a non-empty body
  injected    \* query loader: the list `injected`

env == <<prog, srcs, haveJq, tpl>>

hist == <<failedOps, retried, ranAfterFail>>

par == <<wpc, workerOut, writers>>

ldr == <<nfiles, att, lst, batch, appended, called>>

rnd == <<doc, strict, conf, warned, haveYaml, stderr, now, runs, prev,
         flags, stdout, sideFiles>>

mcs == <<PROVIDER_PRESETS, ARGS, returned>>

pls == <<ENABLE_COMPRESSION, cache_file, encoded_file, echoed, builds>>

dfs == <<argv, environ, substituted>>

\* The programs modelled at the level of their entry points.
qld == <<arr, query, hash, targets, fetched, injected>>

units == <<mcs, pls, dfs, qld>>

build == <<srcs, todo, gi, haveJq, tpl, cache, PROCESSED, FAILED, b64,
           manifest, loader, index>>

vars == <<prog, pc, exitCode, failedOps, retried, ranAfterFail, srcs, todo,
          gi, haveJq, tpl, cache, PROCESSED, FAILED, b64, manifest, loader,
          index, wpc, workerOut, writers, nfiles, att, lst, batch, appended, called,
          doc,
          strict, conf, warned, haveYaml, stderr, now, runs, prev, flags,
          stdout, sideFiles, PROVIDER_PRESETS, ARGS, returned, ENABLE_COMPRESSION, cache_file,
          encoded_file, echoed, builds, argv, environ, substituted, arr, query,
          hash, targets, fetched, injected>>

Running == exitCode = -1

Op(step, arg) == [step |-> step, arg |-> arg]

\* Book-keeping for one executed step and its outcome.
Logged(step, arg, ok) ==
  /\ failedOps' = IF ok THEN failedOps ELSE failedOps \cup {Op(step, arg)}
  /\ retried' = IF Op(step, arg) \in failedOps
                THEN retried \cup {Op(step, arg)} ELSE retried
  /\ ranAfterFail' = (ranAfterFail \/ failedOps # {})

Exit(rc) == /\ exitCode' = rc
            /\ pc' = "done"

NoManifest == [st |-> "absent", files |-> <<>>]

Written(files) == [st |-> "written", files |-> files]

\* printf '%s\n' *.js.b64 without nullglob: the sorted matches, or the pattern
\* itself when nothing matches.
GlobNames(dir) ==
  IF Present(dir) = {} THEN <<GlobEntry>>
  ELSE MapSeq(SortedSeq(Present(dir)), NameEntry)

\* fs.readdirSync(dir).filter(f => f.endsWith(".js.b64")).sort()
ReaddirNames(dir) == MapSeq(SortedSeq(Present(dir)), NameEntry)

\* manifest.json as an earlier build left it, listing that build's payloads
StaleManifest(dir) == [st |-> "stale", files |-> ReaddirNames(dir)]

BuildProgs == {"caching", "die9", "parallel3", "six", "nine", "p003", "p004"}

\* Programs that consult jq, the index template and the payload cache.
JqProgs == {"caching", "nine", "p003", "p004"}

TplProgs == {"caching", "p003", "p004"}

CacheProgs == {"caching", "p004"}

\* ------------------------------------------------------------ loader inputs
\* Largest manifest the loader is given.
MaxFiles == 4

\* loadScript(file, retries = 2): build-all.sh 267, part_004 154
retries == 2

\* loadBatch(files, batchSize = 3): part_004 174
batchSize == 3

Files == 1..MaxFiles

LoaderProgs == {"loaderAll", "loaderBatch"}

\* The loaders that scripts/gen-mitm-loader.js writes with the manifest's list
\* embedded: "loaderSeq" is the template of gen-configs.sh 66-79, "loaderInject"
\* the one of gen-configs.sh 123-147.
TemplateLoaderProgs == {"loaderSeq", "loaderInject"}

\* ------------------------------------------------------ mobileconfig inputs
\* Calls of one entry point made by one process.
MaxCalls == 2

MobileProgs == {"mobileconfig"}

\* gen-mobileconfig.js 1016-1029: the entry points exported for programmatic use
MobileEntries == {"main", "resolveProviders"}

\* gen-mobileconfig.js 74-160: a built-in entry holds its doh/dot specs, the
\* nextdns entry holds only the factory make(profileId).
PresetSpec(id, domains) == [make |-> FALSE, id |-> id, domains |-> domains]

PresetFactory == [make |-> TRUE, id |-> "", domains |-> <<>>]

PROVIDER_PRESETS0 ==
  [n \in {"cloudflare", "nextdns"} |->
     IF n = "nextdns" THEN PresetFactory ELSE PresetSpec("", <<>>)]

\* --providers, --nextdns-id and --domains as parseArgs leaves them
ArgSets ==
  [providers : {<<"cloudflare">>, <<"nextdns">>, <<"nextdns", "cloudflare">>,
                <<"nextdns", "bogus">>},
   nextdnsId : {"", "abc"},
   domains : {<<>>, <<"d">>}]

\* --------------------------------------------------- process_payload inputs
\* Builds that run one after the other over the same cache directory.
MaxBuilds == 2

\* Distinct contents the payload source takes over those builds.
MaxContents == 2

Contents == 1..MaxContents

PayloadProgs == {"process_payload"}

\* gzip -c "$js_file" | base64, or base64 "$js_file"
Encoded(c, gz) == [st |-> "full", content |-> c, gz |-> gz]

NoPayload == [st |-> "absent", content |-> 0, gz |-> FALSE]

NotCalled == [out |-> "", content |-> 0, gzip |-> FALSE]

\* ---------------------------------------------------------- --define inputs
\* Longest command line tried.
MaxArgs == 2

DefineProgs == {"define"}

\* gen-mitm-loader.js 20-95: the loader driven by ?inject= or #inject=
QueryProgs == {"queryLoader"}

MaxEntries == 2

MaxItems == 2

\* The strings the manifest of the query loader holds: two payloads, one in
\* a subdirectory, and a file that is no payload.
Entries == {"a.js.b64", "b.js.b64", "x/y.js.b64", "a.js"}

\* The items of an inject parameter, as inject.split(",") and trim give them
InjectItems == {"all", "ALL", "a.js", "b.js", "x/y.js", "__ALL__"}

\* gen-mitm-loader.js 80: f.endsWith(".js.b64")
endsWithJsB64(e) == e \in {"a.js.b64", "b.js.b64", "x/y.js.b64"}

\* gen-mitm-loader.js 80: f.replace(/\.js\.b64$/, ".js")
stripB64(e) ==
  CASE e = "a.js.b64" -> "a.js"
    [] e = "b.js.b64" -> "b.js"
    [] e = "x/y.js.b64" -> "x/y.js"
    [] OTHER -> e

\* gen-mitm-loader.js 55: name + ".b64"
withB64(n) ==
  CASE n = "a.js" -> "a.js.b64"
    [] n = "b.js" -> "b.js.b64"
    [] n = "x/y.js" -> "x/y.js.b64"
    [] n = "all" -> "all.b64"
    [] n = "ALL" -> "ALL.b64"
    [] OTHER -> "__ALL__.b64"

\* gen-mitm-loader.js 54: /^[\w.-]+\.js$/.test(name)
SafeName(n) == n \in {"a.js", "b.js"}

\* gen-mitm-loader.js 47: inject.trim().toLowerCase() === "all"
IsAll(items) == Len(items) = 1 /\ items[1] \in {"all", "ALL"}

\* gen-mitm-loader.js 41-50: the query's inject, else the hash's; [] when
\* there is none, ["__ALL__"] for `all`, else the items
getInjectList(q, h) ==
  LET inj == IF q # <<>> THEN q ELSE h
  IN  IF inj = <<>> THEN <<>>
      ELSE IF IsAll(inj) THEN <<"__ALL__">>
      ELSE inj

\* gen-mitm-loader.js 79-80: arr.filter(endsWith).map(replace)
PayloadFiles(a) ==
  LET kept == SelectSeq(a, endsWithJsB64)
  IN  [i \in DOMAIN kept |-> stripB64(kept[i])]

\* gen-mitm-loader.js 83-91
Targets(files, list) ==
  LET Wanted(f) == \E k \in DOMAIN list : list[k] = f
  IN  IF list # <<>> /\ list[1] = "__ALL__" THEN files
      ELSE IF list # <<>> THEN SelectSeq(files, Wanted)
      ELSE <<>>

\* The variables the YAML text refers to.
VarNames == {"K", "U"}

\* A command-line token, as the sequence of its pieces: --define, K=V,
\* --define=K=V, --define=K and --dry.
Tokens ==
  {<<"--", "define">>, <<"K", "=", "V">>, <<"--", "define", "=", "K", "=", "V">>,
   <<"--", "define", "=", "K">>, <<"--", "dry">>}

\* The YAML source: literal text and ${NAME} references.
Lit(t) == [var |-> "", text |-> <<t>>]

Ref(n) == [var |-> n, text |-> <<>>]

YamlText == <<Lit("a"), Ref("K"), Lit("b"), Ref("K"), Ref("U")>>

\* ---------------------------------------------------------- renderer inputs
\* Longest rule list and proxy list of an input document.
MaxRules == 2

MaxProxies == 2

RenderProgs == {"shadowrocket", "loon", "stash", "genconf"}

\* gen-stash.js 534-671: generateConfig, called on a loaded document
StashProgs == {"generateConfig"}

\* A field that is missing from a YAML object is the empty string.
Rules == [type : {"DOMAIN", "FINAL", "MATCH"}, value : {"", "v"}, group : {"", "G"}]

ProxyNames == {"A", "B B", "B-B"}

Proxies ==
  [name : ProxyNames \cup {""}, type : {"socks5"}, host : {"h"}, port : {"p"},
   user : {""}, pass : {""}]
  \cup [name : {"A"}, type : {"", "socks5"}, host : {"", "h"}, port : {"", "p"},
        user : {""}, pass : {""}]
  \cup [name : {"A"}, type : {"socks5"}, host : {"h"}, port : {"p"},
        user : {"u"}, pass : {"w"}]

SeqsUpTo(S, n) == UNION {[1..k -> S] : k \in 1..n}

Absent == [st |-> "absent", items |-> <<>>]

EmptySection == [st |-> "empty", items |-> <<>>]

Listed(items) == [st |-> "list", items |-> items]

ValidProxy ==
  [name |-> "A", type |-> "socks5", host |-> "h", port |-> "p",
   user |-> "", pass |-> ""]

ValidRule == [type |-> "DOMAIN", value |-> "v", group |-> "G"]

SimpleProxySections == {Absent, EmptySection, Listed(<<ValidProxy>>)}

SimpleRuleSections == {Absent, EmptySection, Listed(<<ValidRule>>)}

\* groups: absent, {} or one group: of proxy A, of proxies A and "B B", or
\* without members
GroupSections == {Absent, EmptySection,
                  Listed(<<[name |-> "G", members |-> <<"A">>]>>),
                  Listed(<<[name |-> "G", members |-> <<"A", "B B">>]>>),
                  Listed(<<[name |-> "G", members |-> <<>>]>>)}

\* Input documents: every combination of absent / empty / listed sections;
\* the lists range over all rule lists or all proxy lists up to the bounds.
MaxExternal == 2

MaxBlock == 2

\* The entries of external_rule_sets: url and group, either of them missing
ExternalSets == [url : {"", "u"}, group : {"", "G"}]

\* The entries of block_domains
BlockDomains == {"d"}

FinalRule == [type |-> "FINAL", value |-> "", group |-> "G"]

RuleSetDocs ==
  [proxies : {Absent},
   rules : {Absent} \cup {Listed(l) : l \in SeqsUpTo({ValidRule, FinalRule}, MaxRules)},
   groups : {Absent},
   external_rule_sets : {<<>>} \cup SeqsUpTo(ExternalSets, MaxExternal),
   block_domains : {<<>>} \cup SeqsUpTo(BlockDomains, MaxBlock)]

\* The documents read: one with rules of every kind, one with proxies of
\* every kind, and one with rules, external rule sets and block domains.
Docs ==
  [proxies : SimpleProxySections,
   rules : SimpleRuleSections \cup {Listed(l) : l \in SeqsUpTo(Rules, MaxRules)},
   groups : GroupSections,
   external_rule_sets : {<<>>},
   block_domains : {<<>>}]
  \cup
  [proxies : SimpleProxySections \cup {Listed(l) : l \in SeqsUpTo(Proxies, MaxProxies)},
   rules : SimpleRuleSections,
   groups : GroupSections,
   external_rule_sets : {<<>>},
   block_domains : {<<>>}]
  \cup RuleSetDocs

NoConf == [st |-> "absent", stamp |-> 0, proxyLines |-> <<>>, policyLines |-> <<>>, ruleLines |-> <<>>]

\* gen-shadowrocket.js 224-226, gen-loon.js 200-203
NoFlags == [dry |-> FALSE, splitRules |-> FALSE, emitJson |-> FALSE, annotate |-> FALSE]

\* The command lines tried: --dry or not, alone or with --split-rules
\* --emit-json
FlagSets ==
  {[dry |-> d, splitRules |-> x, emitJson |-> x, annotate |-> FALSE] : d, x \in BOOLEAN}
  \cup {[dry |-> FALSE, splitRules |-> FALSE, emitJson |-> FALSE, annotate |-> TRUE]}

\* The generators that know --dry
DryProgs == {"shadowrocket", "loon"}

NoDoc == [proxies |-> Absent, rules |-> Absent, groups |-> Absent,
          external_rule_sets |-> <<>>, block_domains |-> <<>>]

\* --------------------------------------------------------------------- Init
BuildIdle ==
  /\ srcs = {} /\ todo = {} /\ gi = 1 /\ haveJq = FALSE /\ tpl = NoFile
  /\ cache = {} /\ PROCESSED = 0 /\ FAILED = 0
  /\ b64 = [b \in Bases |-> NoFile]
  /\ manifest = NoManifest /\ loader = "absent" /\ index = NoFile
  /\ wpc = [s \in Srcs |-> "none"]
  /\ workerOut = [b \in Bases |-> NoFile]
  /\ writers = [b \in Bases |-> {}]

LoaderIdle ==
  /\ nfiles = 0
  /\ att = [f \in Files |-> 0]
  /\ lst = [f \in Files |-> "idle"]
  /\ batch = 0
  /\ appended = <<>>
  /\ called = [f \in Files |-> 0]

RenderIdle ==
  /\ doc = NoDoc /\ strict = FALSE /\ conf = NoConf /\ warned = {}
  /\ haveYaml = TRUE /\ stderr = FALSE
  /\ now = 1 /\ runs = 1 /\ prev = NoConf
  /\ flags = NoFlags /\ stdout = NoConf /\ sideFiles = {}

MobileIdle ==
  /\ PROVIDER_PRESETS = PROVIDER_PRESETS0
  /\ ARGS = [providers |-> <<>>, nextdnsId |-> "", domains |-> <<>>]
  /\ returned = <<>>

PayloadIdle ==
  /\ ENABLE_COMPRESSION = TRUE
  /\ cache_file = [k \in Contents |-> NoPayload]
  /\ encoded_file = NoPayload
  /\ echoed = NotCalled
  /\ builds = 1

DefineIdle ==
  /\ argv = <<>>
  /\ environ = [k \in VarNames |-> ""]
  /\ substituted = <<>>

QueryIdle ==
  /\ arr = <<>> /\ query = <<>> /\ hash = <<>>
  /\ targets = <<>> /\ fetched = {} /\ injected = <<>>

UnitsIdle == MobileIdle /\ PayloadIdle /\ DefineIdle /\ QueryIdle

HistInit ==
  /\ exitCode = -1
  /\ failedOps = {}
  /\ retried = {}
  /\ ranAfterFail = FALSE

BuildInit ==
  /\ prog \in BuildProgs
  /\ pc = "clean"
  /\ HistInit
  /\ srcs \in SUBSET Srcs
  /\ todo = {}
  /\ gi = 1
  /\ haveJq \in (IF prog \in JqProgs THEN BOOLEAN ELSE {FALSE})
  /\ tpl \in (IF prog \in TplProgs THEN {NoFile, EmptyFile, FullFile(0)}
              ELSE {NoFile})
  /\ cache \in (IF prog \in CacheProgs THEN SUBSET srcs ELSE {{}})
  /\ PROCESSED = 0
  /\ FAILED = 0
  /\ loader = "absent"
  /\ b64 \in {[b \in Bases |-> NoFile]} \cup {[b \in Bases |-> FullFile(0)]}
  /\ manifest \in {NoManifest} \cup
                  (IF prog \in JqProgs /\ b64 # [b \in Bases |-> NoFile]
                   THEN {StaleManifest(b64)} ELSE {})
  /\ index = NoFile
  /\ wpc = [s \in Srcs |-> "none"]
  /\ workerOut = [b \in Bases |-> NoFile]
  /\ writers = [b \in Bases |-> {}]
  /\ LoaderIdle
  /\ RenderIdle
  /\ UnitsIdle

LoaderInit ==
  /\ prog \in LoaderProgs
  /\ pc = "manifest"
  /\ HistInit
  /\ BuildIdle
  /\ nfiles \in 0..MaxFiles
  /\ att = [f \in Files |-> 0]
  /\ lst = [f \in Files |-> "idle"]
  /\ batch = 0
  /\ appended = <<>>
  /\ called = [f \in Files |-> 0]
  /\ RenderIdle
  /\ UnitsIdle

\* gen-configs.sh 58-62, 117-120: no loader is written for an empty manifest
TemplateLoaderInit ==
  /\ prog \in TemplateLoaderProgs
  /\ pc = "loading"
  /\ HistInit
  /\ BuildIdle
  /\ nfiles \in 1..MaxFiles
  /\ att = [f \in Files |-> 0]
  /\ lst = [f \in Files |-> "idle"]
  /\ batch = 0
  /\ appended = <<>>
  /\ called = [f \in Files |-> 0]
  /\ RenderIdle
  /\ UnitsIdle

RenderInit ==
  /\ prog \in RenderProgs
  /\ pc = "render"
  /\ HistInit
  /\ BuildIdle
  /\ LoaderIdle
  /\ haveYaml \in BOOLEAN
  /\ doc \in (IF haveYaml THEN Docs ELSE {NoDoc})
  /\ strict \in BOOLEAN
  /\ conf = NoConf
  /\ warned = {}
  /\ stderr = FALSE
  /\ now = 1
  /\ runs = 1
  /\ prev = NoConf
  /\ flags \in (IF prog \in DryProgs THEN FlagSets ELSE {NoFlags})
  /\ stdout = NoConf
  /\ sideFiles = {}
  /\ UnitsIdle

\* gen-mobileconfig.js 74-160, 1008: the module is loaded, PROVIDER_PRESETS
\* holds its literals and ARGS the parsed command line.
MobileInit ==
  /\ prog \in MobileProgs
  /\ pc \in MobileEntries
  /\ HistInit
  /\ BuildIdle
  /\ LoaderIdle
  /\ RenderIdle
  /\ PROVIDER_PRESETS = PROVIDER_PRESETS0
  /\ ARGS \in ArgSets
  /\ returned = <<>>
  /\ PayloadIdle
  /\ DefineIdle
  /\ QueryIdle

\* build-all.sh 658, 1077-1091: the first build over an empty cache directory
PayloadInit ==
  /\ prog \in PayloadProgs
  /\ pc = "payload"
  /\ HistInit
  /\ BuildIdle
  /\ LoaderIdle
  /\ RenderIdle
  /\ MobileIdle
  /\ ENABLE_COMPRESSION \in BOOLEAN
  /\ cache_file = [k \in Contents |-> NoPayload]
  /\ encoded_file = NoPayload
  /\ echoed = NotCalled
  /\ builds = 1
  /\ DefineIdle
  /\ QueryIdle

\* gen-shadowrocket.js 75, 236-247: ARGS = parseArgs(process.argv) and the
\* substitution map are computed when the script is loaded.
DefineInit ==
  /\ prog \in DefineProgs
  /\ pc = "load"
  /\ HistInit
  /\ BuildIdle
  /\ LoaderIdle
  /\ RenderIdle
  /\ MobileIdle
  /\ PayloadIdle
  /\ argv \in SeqsUpTo(Tokens, MaxArgs)
  /\ environ \in [VarNames -> {"", "E"}]
  /\ substituted = <<>>
  /\ QueryIdle

\* gen-mitm-loader.js 73-76: the page's URL and the manifest are the inputs
QueryInit ==
  /\ prog \in QueryProgs
  /\ pc = "manifest"
  /\ HistInit
  /\ BuildIdle
  /\ LoaderIdle
  /\ RenderIdle
  /\ MobileIdle
  /\ PayloadIdle
  /\ DefineIdle
  /\ arr \in {<<>>} \cup SeqsUpTo(Entries, MaxEntries)
  /\ query \in {<<>>} \cup SeqsUpTo(InjectItems, MaxItems)
  /\ hash \in {<<>>, <<"all">>, <<"b.js">>}
  /\ targets = <<>>
  /\ fetched = {}
  /\ injected = <<>>

\* gen-stash.js 126-127: rules and ers are read from the master document
StashInit ==
  /\ prog \in StashProgs
  /\ pc = "render"
  /\ HistInit
  /\ BuildIdle
  /\ LoaderIdle
  /\ haveYaml = TRUE
  /\ doc \in RuleSetDocs
  /\ strict = FALSE
  /\ conf = NoConf
  /\ warned = {}
  /\ stderr = FALSE
  /\ now = 1
  /\ runs = 1
  /\ prev = NoConf
  /\ flags = NoFlags
  /\ stdout = NoConf
  /\ sideFiles = {}
  /\ UnitsIdle

Init ==
  \/ StashInit
  \/ BuildInit \/ LoaderInit \/ TemplateLoaderInit \/ RenderInit
  \/ MobileInit \/ PayloadInit \/ DefineInit \/ QueryInit

\* ===================================================== six-step orchestrator
\* build-all.sh 1111-1113: rm -rf "$CONF_OUT" "$OBF_OUT"; mkdir -p
SixClean ==
  /\ prog = "six" /\ Running /\ pc = "clean"
  /\ b64' = [b \in Bases |-> NoFile]
  /\ pc' = "gen"
  /\ Logged("clean", 0, TRUE)
  /\ UNCHANGED <<env, units, exitCode, todo, gi, cache, PROCESSED, FAILED, manifest, loader, index, par, ldr, rnd>>

SixGenerator_warnOnly ==
  /\ prog = "six" /\ Running /\ pc = "gen"
  /\ \E ok \in BOOLEAN : Logged("gen", gi, ok)
  /\ exitCode' = exitCode
  /\ gi' = gi + 1
  /\ IF gi = Len(GENERATORS)
     THEN pc' = "obf" /\ todo' = srcs
     ELSE pc' = "gen" /\ todo' = todo
  /\ UNCHANGED <<env, units, cache, PROCESSED, FAILED, b64, manifest, loader, index, par, ldr, rnd>>

\* build-all.sh 1117-1120: four `node scripts/gen-*.js` under `set -e`
SixGenerator ==
  /\ prog = "six" /\ Running /\ pc = "gen"
  /\ \E ok \in BOOLEAN :
       /\ Logged("gen", gi, ok)
       /\ IF ~ok THEN /\ Exit(1)
                      /\ UNCHANGED <<gi, todo>>
          ELSE /\ exitCode' = exitCode
               /\ gi' = gi + 1
               /\ IF gi = Len(GENERATORS)
                  THEN pc' = "obf" /\ todo' = srcs
                  ELSE pc' = "gen" /\ todo' = todo
  /\ UNCHANGED <<env, units, cache, PROCESSED, FAILED, b64, manifest, loader, index, par, ldr, rnd>>

\* build-all.sh 1123-1129: find | while read; npx javascript-obfuscator;
\* base64 "$obf" > "$b64".  `find` lists in directory order, so any source
\* still to visit may come next.
SixObfuscate ==
  /\ prog = "six" /\ Running /\ pc = "obf" /\ todo # {}
  /\ \E s \in todo, out \in {"fail", "empty", "full"} :
       /\ todo' = todo \ {s}
       /\ Logged("obf", s, out # "fail")
       /\ IF out = "fail"
          THEN /\ Exit(1)
               /\ b64' = b64
          ELSE /\ b64' = [b64 EXCEPT ![Base(s)] =
                            IF out = "empty" THEN EmptyFile ELSE FullFile(s)]
               /\ UNCHANGED <<pc, exitCode>>
  /\ UNCHANGED <<env, units, gi, cache, PROCESSED, FAILED, manifest, loader, index, par, ldr, rnd>>

\* build-all.sh 1131-1132: node scripts/gen-catalog.js
SixCatalog ==
  /\ prog = "six" /\ Running /\ pc = "obf" /\ todo = {}
  /\ \E ok \in BOOLEAN :
       /\ Logged("catalog", 0, ok)
       /\ IF ok THEN pc' = "validate" /\ exitCode' = exitCode ELSE Exit(1)
  /\ UNCHANGED <<env, units, todo, gi, cache, PROCESSED, FAILED, b64, manifest, loader, index, par, ldr, rnd>>

\* build-all.sh 1134-1142: node scripts/validate-configs.js; ls; echo
SixValidate ==
  /\ prog = "six" /\ Running /\ pc = "validate"
  /\ \E ok \in BOOLEAN :
       /\ Logged("validate", 0, ok)
       /\ IF ok THEN Exit(0) ELSE Exit(1)
  /\ UNCHANGED <<env, units, todo, gi, cache, PROCESSED, FAILED, b64, manifest, loader, index, par, ldr, rnd>>

\* ==================================================== nine-step orchestrator
\* build-all.sh 1176-1179, 1208-1211: check_command jq (error: exit 1);
\* rm -rf "$CONF_DIR" "$OBF_DIR"; mkdir -p
NineClean ==
  /\ prog = "nine" /\ Running /\ pc = "clean"
  /\ IF ~haveJq
     THEN /\ Exit(1)
          /\ Logged("env", 0, FALSE)
          /\ b64' = b64
     ELSE /\ b64' = [b \in Bases |-> NoFile]
          /\ pc' = "gen"
          /\ exitCode' = exitCode
          /\ Logged("clean", 0, TRUE)
  /\ UNCHANGED <<env, units, todo, gi, cache, PROCESSED, FAILED, manifest, loader, index, par, ldr, rnd>>

NineGenerator_retry ==
  /\ prog = "nine" /\ Running /\ pc = "gen"
  /\ \E out \in {"ok", "fail", "missing"} :
       \/ /\ out = "missing"
          /\ UNCHANGED hist
          /\ gi' = gi + 1
          /\ IF gi = Len(GENERATORS)
             THEN pc' = "obf" /\ todo' = srcs
             ELSE pc' = "gen" /\ todo' = todo
       \/ /\ out = "ok"
          /\ Logged("gen", gi, TRUE)
          /\ gi' = gi + 1
          /\ IF gi = Len(GENERATORS)
             THEN pc' = "obf" /\ todo' = srcs
             ELSE pc' = "gen" /\ todo' = todo
       \/ /\ out = "fail"
          /\ Logged("gen", gi, FALSE)
          /\ UNCHANGED <<gi, pc, todo>>
  /\ UNCHANGED <<env, units, exitCode, cache, PROCESSED, FAILED, b64, manifest, loader, index, par, ldr, rnd>>

\* build-all.sh 1213-1221: for gen in GENERATORS; [[ -f ]] && node ... || warn
NineGenerator ==
  /\ prog = "nine" /\ Running /\ pc = "gen"
  /\ \E out \in {"ok", "fail", "missing"} :
       \/ /\ out = "missing"
          /\ UNCHANGED hist
       \/ /\ out # "missing"
          /\ Logged("gen", gi, out = "ok")
  /\ gi' = gi + 1
  /\ IF gi = Len(GENERATORS)
     THEN pc' = "obf" /\ todo' = srcs
     ELSE pc' = "gen" /\ todo' = todo
  /\ UNCHANGED <<env, units, exitCode, cache, PROCESSED, FAILED, b64, manifest, loader, index, par, ldr, rnd>>

\* build-all.sh 1226-1245: for file in "$SRC_DIR"/**/*.js (sorted glob);
\* if $OBFUSCATOR ...; then base64 "$obf" > "$b64"; else warn; fi
NineObfuscate ==
  /\ prog = "nine" /\ Running /\ pc = "obf" /\ todo # {}
  /\ LET s == CHOOSE x \in todo : \A y \in todo : x <= y IN
     \E out \in {"fail", "empty", "full"} :
       /\ todo' = todo \ {s}
       /\ Logged("obf", s, out # "fail")
       /\ b64' = IF out = "fail" THEN b64
                 ELSE [b64 EXCEPT ![Base(s)] =
                         IF out = "empty" THEN EmptyFile ELSE FullFile(s)]
  /\ UNCHANGED <<env, units, pc, exitCode, gi, cache, PROCESSED, FAILED, manifest, loader, index, par, ldr, rnd>>

\* build-all.sh 1251: FILES=$(ls "$OBF_DIR"/*.js.b64 2>/dev/null || echo "")
\* 1257: printf '%s\n' $FILES | jq -R . | jq -s .   (full paths; one empty
\* string when FILES is empty)
LsPaths(dir) ==
  IF Present(dir) = {} THEN <<BlankEntry>>
  ELSE MapSeq(SortedSeq(Present(dir)), PathEntry)

\* build-all.sh 1248-1259
NineManifest ==
  /\ prog = "nine" /\ Running /\ pc = "obf" /\ todo = {}
  /\ manifest' = Written(LsPaths(b64))
  /\ Logged("manifest", 0, TRUE)
  /\ pc' = "loader"
  /\ UNCHANGED <<env, units, exitCode, todo, gi, cache, PROCESSED, FAILED, b64, loader, index, par, ldr, rnd>>

\* build-all.sh 1261-1265: [[ -f gen-mitm-loader.js ]] && node ... (errexit)
NineLoader ==
  /\ prog = "nine" /\ Running /\ pc = "loader"
  /\ \E out \in {"ok", "fail", "missing"} :
       \/ /\ out = "missing"
          /\ UNCHANGED <<hist, loader, exitCode>>
          /\ pc' = "validate"
       \/ /\ out = "ok"
          /\ Logged("loader", 0, TRUE)
          /\ loader' = "generated"
          /\ pc' = "validate"
          /\ exitCode' = exitCode
       \/ /\ out = "fail"
          /\ Logged("loader", 0, FALSE)
          /\ loader' = loader
          /\ Exit(1)
  /\ UNCHANGED <<env, units, todo, gi, cache, PROCESSED, FAILED, b64, manifest, index, par, ldr, rnd>>

\* build-all.sh 1267-1299: templates are copied to manifest-loader.html and
\* catalog.html (index.html is not written); step 7 is
\*   find "$PUBLIC_DIR" -type f -empty -print && warn "Found empty files"
\* which only prints; build-info.json; summary; the script ends with status 0.
NineValidate ==
  /\ prog = "nine" /\ Running /\ pc = "validate"
  /\ Logged("validate", 0, TRUE)
  /\ Exit(0)
  /\ UNCHANGED <<env, units, todo, gi, cache, PROCESSED, FAILED, b64, manifest, loader, index, par, ldr, rnd>>

CachingClean_keepsPayloads ==
  /\ prog = "caching" /\ Running /\ pc = "clean"
  /\ \E ok \in BOOLEAN :
       IF ~ok
       THEN /\ Exit(1)
            /\ Logged("env", 0, FALSE)
            /\ b64' = b64
       ELSE /\ b64' = b64
            /\ pc' = "gen"
            /\ exitCode' = exitCode
            /\ Logged("clean", 0, TRUE)
  /\ UNCHANGED <<env, units, todo, gi, cache, PROCESSED, FAILED, manifest, loader, index, par, ldr, rnd>>

\* ====================================================== caching orchestrator
\* build-all.sh 47-58, 101-110: obf_cmd, check_node_modules, node --version
\* (each may die), then rm -rf "$CONF_DIR" "$OBF_DIR"; mkdir -p
CachingClean ==
  /\ prog = "caching" /\ Running /\ pc = "clean"
  /\ \E ok \in BOOLEAN :
       IF ~ok
       THEN /\ Exit(1)
            /\ Logged("env", 0, FALSE)
            /\ b64' = b64
       ELSE /\ b64' = [b \in Bases |-> NoFile]
            /\ pc' = "gen"
            /\ exitCode' = exitCode
            /\ Logged("clean", 0, TRUE)
  /\ UNCHANGED <<env, units, todo, gi, cache, PROCESSED, FAILED, manifest, loader, index, par, ldr, rnd>>

\* build-all.sh 69-83 run_if, 114-117: run_if gen || die; the last one is a
\* plain run_if whose status 1 ends the script under errexit.
CachingGenerator ==
  /\ prog = "caching" /\ Running /\ pc = "gen"
  /\ \E out \in {"ok", "fail", "missing"} :
       \/ /\ out = "missing"
          /\ UNCHANGED hist
          /\ exitCode' = exitCode
          /\ gi' = gi + 1
          /\ IF gi = Len(GENERATORS)
             THEN pc' = "obf" /\ todo' = srcs
             ELSE pc' = "gen" /\ todo' = todo
       \/ /\ out = "ok"
          /\ Logged("gen", gi, TRUE)
          /\ exitCode' = exitCode
          /\ gi' = gi + 1
          /\ IF gi = Len(GENERATORS)
             THEN pc' = "obf" /\ todo' = srcs
             ELSE pc' = "gen" /\ todo' = todo
       \/ /\ out = "fail"
          /\ Logged("gen", gi, FALSE)
          /\ Exit(1)
          /\ UNCHANGED <<gi, todo>>
  /\ UNCHANGED <<env, units, cache, PROCESSED, FAILED, b64, manifest, loader, index, par, ldr, rnd>>

\* build-all.sh 132-208, one iteration of the payload loop.
\*   136-140  file not accessible: FAILED++
\*   160-165  cache hit: cp "$cache_file" "$b64"; PROCESSED++
\*   175-203  `"$OBF" "$tmp_js" ...`: OBF holds a multi-word command line
\*            (49, 53) and is expanded quoted, so bash looks up one command
\*            named "npx --yes javascript-obfuscator", finds none (status
\*            127) and the else branch runs: warn; FAILED++
CachingPayload ==
  /\ prog = "caching" /\ Running /\ pc = "obf" /\ todo # {}
  /\ LET s == CHOOSE x \in todo : \A y \in todo : x <= y IN
     /\ todo' = todo \ {s}
     /\ \E readable \in BOOLEAN :
          IF ~readable
          THEN /\ FAILED' = FAILED + 1
               /\ Logged("read", s, FALSE)
               /\ UNCHANGED <<PROCESSED, b64>>
          ELSE IF s \in cache
          THEN /\ b64' = [b64 EXCEPT ![Base(s)] = FullFile(s)]
               /\ PROCESSED' = PROCESSED + 1
               /\ Logged("cached", s, TRUE)
               /\ FAILED' = FAILED
          ELSE /\ FAILED' = FAILED + 1
               /\ Logged("obf", s, FALSE)
               /\ UNCHANGED <<PROCESSED, b64>>
  /\ UNCHANGED <<env, units, pc, exitCode, gi, cache, manifest, loader, index, par, ldr, rnd>>

\* build-all.sh 216-247: PROCESSED == 0 writes "[]"; then the jq branch
\* (have jq && PROCESSED > 0) or the node fallback rewrites manifest.json.
CachingManifest ==
  /\ prog = "caching" /\ Running /\ pc = "obf" /\ todo = {}
  /\ manifest' = IF haveJq /\ PROCESSED > 0
                 THEN Written(GlobNames(b64))
                 ELSE Written(ReaddirNames(b64))
  /\ Logged("manifest", 0, TRUE)
  /\ pc' = "loader"
  /\ UNCHANGED <<env, units, exitCode, todo, gi, cache, PROCESSED, FAILED, b64, loader, index, par, ldr, rnd>>

\* build-all.sh 249-297: run_if gen-mitm-loader.js || { fallback loader }.
\* run_if returns 0 when the script is missing, so the fallback is written
\* only when the script ran and failed.
CachingLoader ==
  /\ prog = "caching" /\ Running /\ pc = "loader"
  /\ \E out \in {"ok", "fail", "missing"} :
       \/ /\ out = "missing"
          /\ UNCHANGED <<hist, loader>>
       \/ /\ out = "ok"
          /\ Logged("loader", 0, TRUE)
          /\ loader' = "generated"
       \/ /\ out = "fail"
          /\ Logged("loader", 0, FALSE)
          /\ loader' = "fallback"
  /\ pc' = "templates"
  /\ UNCHANGED <<env, units, exitCode, todo, gi, cache, PROCESSED, FAILED, b64, manifest, index, par, ldr, rnd>>

\* build-all.sh 299-320: cp manifest-loader.html index.html, or the built-in
\* fallback page.  369-381: validation only warns.
CachingTemplates ==
  /\ prog = "caching" /\ Running /\ pc = "templates"
  /\ index' = IF tpl.st = "absent" THEN FullFile(0) ELSE tpl
  /\ Logged("validate", 0, TRUE)
  /\ pc' = "summary"
  /\ UNCHANGED <<env, units, exitCode, todo, gi, cache, PROCESSED, FAILED, b64, manifest, loader, par, ldr, rnd>>

CachingExit_failOnAnyFailure ==
  /\ prog = "caching" /\ Running /\ pc = "summary"
  /\ exitCode' = IF FAILED = 0 THEN 0 ELSE 1
  /\ pc' = "end"
  /\ Logged("summary", 0, TRUE)
  /\ UNCHANGED <<env, units, todo, gi, cache, PROCESSED, FAILED, b64, manifest, loader, index, par, ldr, rnd>>

\* build-all.sh 392-398
CachingExit ==
  /\ prog = "caching" /\ Running /\ pc = "summary"
  /\ exitCode' = IF FAILED = 0 THEN 0
                 ELSE IF PROCESSED > 0 THEN 0 ELSE 1
  /\ pc' = "end"
  /\ Logged("summary", 0, TRUE)
  /\ UNCHANGED <<env, units, todo, gi, cache, PROCESSED, FAILED, b64, manifest, loader, index, par, ldr, rnd>>

\* ============================================ master orchestrator (part_003)
\* Sources 1 and 2 live in subdirectories; the others directly in src-scripts/.
TopLevel(s) == s >= 3

\* part_003 22-27 pick_obf (may die), 30-33 ensure_dirs, 50-52
P003Clean ==
  /\ prog = "p003" /\ Running /\ pc = "clean"
  /\ \E ok \in BOOLEAN :
       IF ~ok
       THEN /\ Exit(1)
            /\ Logged("env", 0, FALSE)
            /\ b64' = b64
       ELSE /\ b64' = [b \in Bases |-> NoFile]
            /\ pc' = "gen"
            /\ exitCode' = exitCode
            /\ Logged("clean", 0, TRUE)
  /\ UNCHANGED <<env, units, todo, gi, cache, PROCESSED, FAILED, manifest, loader, index, par, ldr, rnd>>

\* part_003 35, 57-59: node_if "scripts/$f" || echo "... skipped"
P003Generator ==
  /\ prog = "p003" /\ Running /\ pc = "gen"
  /\ \E out \in {"ok", "fail", "missing"} :
       \/ /\ out = "missing"
          /\ UNCHANGED hist
       \/ /\ out # "missing"
          /\ Logged("gen", gi, out = "ok")
  /\ gi' = gi + 1
  /\ pc' = IF gi = Len(GENERATORS) THEN "obf" ELSE "gen"
  /\ UNCHANGED <<env, units, exitCode, todo, cache, PROCESSED, FAILED, b64, manifest, loader, index, par, ldr, rnd>>

\* part_003 63-72: compgen -G "$SRC_JS/*.js" looks at the top level only.
\* When it matches, find | while read runs `"$OBF_CMD" "$JS" ...` with the
\* multi-word command line quoted: status 127 on the first file, the
\* pipeline fails and errexit ends the script with that status.
P003Obfuscate ==
  /\ prog = "p003" /\ Running /\ pc = "obf"
  /\ IF \E s \in srcs : TopLevel(s)
     THEN \E s \in srcs :
            /\ Logged("obf", s, FALSE)
            /\ Exit(127)
     ELSE /\ UNCHANGED <<hist, exitCode>>
          /\ pc' = "manifest"
  /\ UNCHANGED <<env, units, todo, gi, cache, PROCESSED, FAILED, b64, manifest, loader, index, par, ldr, rnd>>

\* part_003 37-48 json_manifest
json_manifest(dir) ==
  IF haveJq THEN GlobNames(dir) ELSE ReaddirNames(dir)

\* part_003 74-76: json_manifest > "$PUBLIC_DIR/manifest.json"
P003Manifest ==
  /\ prog = "p003" /\ Running /\ pc = "manifest"
  /\ manifest' = Written(json_manifest(b64))
  /\ Logged("manifest", 0, TRUE)
  /\ pc' = "assets"
  /\ UNCHANGED <<env, units, exitCode, todo, gi, cache, PROCESSED, FAILED, b64, loader, index, par, ldr, rnd>>

\* part_003 80-81: [[ -f scripts/manifest-loader.html ]] && cp ... index.html
P003Assets ==
  /\ prog = "p003" /\ Running /\ pc = "assets"
  /\ index' = IF tpl.st = "absent" THEN index ELSE tpl
  /\ Logged("assets", 0, TRUE)
  /\ pc' = "validate"
  /\ UNCHANGED <<env, units, exitCode, todo, gi, cache, PROCESSED, FAILED, b64, manifest, loader, par, ldr, rnd>>

\* part_003 91-101: [[ -s manifest.json ]] || die; zero-byte b64 && die
P003Validate ==
  /\ prog = "p003" /\ Running /\ pc = "validate"
  /\ LET ok == /\ manifest.st = "written"
               /\ \A b \in Bases : b64[b].st # "empty"
     IN /\ Logged("validate", 0, ok)
        /\ IF ok THEN Exit(0) ELSE Exit(1)
  /\ UNCHANGED <<env, units, todo, gi, cache, PROCESSED, FAILED, b64, manifest, loader, index, par, ldr, rnd>>

\* ============================================== parallel pipeline (part_004)
\* Number of parallel jobs (MAX_JOBS, part_004 23-24: CPU cores minus one).
MaxJobs == 2

\* part_004 289-296: setup_encoder, pick_obfuscator (may die), setup_dirs
P004Clean ==
  /\ prog = "p004" /\ Running /\ pc = "clean"
  /\ \E ok \in BOOLEAN :
       IF ~ok
       THEN /\ Exit(1)
            /\ Logged("env", 0, FALSE)
            /\ UNCHANGED <<b64, loader>>
       ELSE /\ b64' = [b \in Bases |-> NoFile]
            /\ loader' = "absent"
            /\ pc' = "gen"
            /\ exitCode' = exitCode
            /\ Logged("clean", 0, TRUE)
  /\ UNCHANGED <<env, units, todo, gi, cache, PROCESSED, FAILED, manifest, index, par, ldr, rnd>>

\* part_004 301-304: three generators `|| die`; the fourth is
\* [[ -f ]] && node ... || warn, which never ends the script.
P004Generator ==
  /\ prog = "p004" /\ Running /\ pc = "gen"
  /\ \E ok \in BOOLEAN :
       /\ Logged("gen", gi, ok)
       /\ IF ~ok /\ gi < Len(GENERATORS)
          THEN /\ Exit(1)
               /\ UNCHANGED <<gi, wpc>>
          ELSE /\ exitCode' = exitCode
               /\ gi' = gi + 1
               /\ IF gi = Len(GENERATORS)
                  THEN /\ pc' = "obf"
                       /\ wpc' = [s \in Srcs |-> IF s \in srcs THEN "queued" ELSE "none"]
                  ELSE /\ pc' = "gen"
                       /\ wpc' = wpc
  /\ UNCHANGED <<env, units, todo, cache, PROCESSED, FAILED, b64, manifest, loader, index, workerOut, writers, ldr, rnd>>

Active == {s \in Srcs : wpc[s] \in {"running", "encoded"}}

\* part_004 312-318: files are handed out in sorted order, at most MAX_JOBS
\* at a time, each to `bash -c 'process_file "$@"'`.  Only the functions are
\* exported (291): in the worker OBF_DIR, CACHE_DIR and OBF_CMD are unset, and
\* the worker shell has neither errexit nor nounset.
\* part_004 74-85: base, hash, cache lookup; a hit copies the cached file to
\* "$OBF_DIR/$base.js.b64" and returns.
WorkerStart(s) ==
  /\ prog = "p004" /\ Running /\ pc = "obf"
  /\ wpc[s] = "queued"
  /\ \A t \in Srcs : wpc[t] = "queued" => s <= t
  /\ Cardinality(Active) < MaxJobs
  /\ IF s \in cache
     THEN /\ workerOut' = [workerOut EXCEPT ![Base(s)] = EmptyFile]
          /\ writers' = [writers EXCEPT ![Base(s)] = @ \cup {s}]
          /\ wpc' = [wpc EXCEPT ![s] = "done"]
     ELSE /\ wpc' = [wpc EXCEPT ![s] = "running"]
          /\ UNCHANGED <<workerOut, writers>>
  /\ UNCHANGED <<env, units, hist, pc, exitCode, todo, gi, cache, PROCESSED, FAILED, b64, manifest, loader, index, ldr, rnd>>

\* part_004 90-102: `"$OBF_CMD" "$file" ...` is the empty command name
\* (status 127, ignored); b64 then redirects into "$OBF_DIR/$base.js.b64",
\* which is created empty because the .ob.js input does not exist.
WorkerEncode(s) ==
  /\ prog = "p004" /\ Running /\ pc = "obf"
  /\ wpc[s] = "running"
  /\ workerOut' = [workerOut EXCEPT ![Base(s)] = EmptyFile]
  /\ writers' = [writers EXCEPT ![Base(s)] = @ \cup {s}]
  /\ wpc' = [wpc EXCEPT ![s] = "encoded"]
  /\ Logged("obf", s, FALSE)
  /\ UNCHANGED <<env, units, pc, exitCode, todo, gi, cache, PROCESSED, FAILED, b64, manifest, loader, index, ldr, rnd>>

\* part_004 104-108: cp "$OBF_DIR/$base.js.b64" "$cache"; rm -f the .ob.js
WorkerStore(s) ==
  /\ prog = "p004" /\ Running /\ pc = "obf"
  /\ wpc[s] = "encoded"
  /\ cache' = IF workerOut[Base(s)].st = "absent" THEN cache ELSE cache \cup {s}
  /\ wpc' = [wpc EXCEPT ![s] = "done"]
  /\ UNCHANGED <<prog, units, srcs, haveJq, tpl, hist, pc, exitCode, todo, gi, PROCESSED, FAILED, b64, manifest, loader, index, workerOut, writers, ldr, rnd>>

\* part_004 112-132 write_manifest
P004ManifestFiles(dir) ==
  IF Present(dir) = {} THEN <<>> ELSE GlobNames(dir)

\* part_004 326-327, 112-132: runs once xargs has returned; `jq empty`
\* validates the temp file, so without jq the function dies.
P004Manifest ==
  /\ prog = "p004" /\ Running /\ pc = "obf"
  /\ \A s \in Srcs : wpc[s] \in {"none", "done"}
  /\ Logged("manifest", 0, haveJq)
  /\ IF haveJq
     THEN /\ manifest' = Written(P004ManifestFiles(b64))
          /\ pc' = "loader"
          /\ exitCode' = exitCode
     ELSE /\ manifest' = manifest
          /\ Exit(1)
  /\ UNCHANGED <<env, units, todo, gi, cache, PROCESSED, FAILED, b64, loader, index, par, ldr, rnd>>

\* part_004 135-193 gen_loader: node scripts/gen-mitm-loader.js when the
\* script exists (errexit on failure), else the built-in fallback loader.
P004Loader ==
  /\ prog = "p004" /\ Running /\ pc = "loader"
  /\ \E out \in {"ok", "fail", "missing"} :
       \/ /\ out = "missing"
          /\ Logged("loader", 0, TRUE)
          /\ loader' = "fallback"
          /\ pc' = "assets"
          /\ exitCode' = exitCode
       \/ /\ out = "ok"
          /\ Logged("loader", 0, TRUE)
          /\ loader' = "generated"
          /\ pc' = "assets"
          /\ exitCode' = exitCode
       \/ /\ out = "fail"
          /\ Logged("loader", 0, FALSE)
          /\ loader' = loader
          /\ Exit(1)
  /\ UNCHANGED <<env, units, todo, gi, cache, PROCESSED, FAILED, b64, manifest, index, par, ldr, rnd>>

\* part_004 196-216 gen_html, 219-256 gen_catalog (node gen-catalog.js under
\* errexit, or the built-in page), 259-282 checksums and build info
P004Assets ==
  /\ prog = "p004" /\ Running /\ pc = "assets"
  /\ index' = IF tpl.st = "absent" THEN FullFile(0) ELSE tpl
  /\ \E ok \in BOOLEAN :
       /\ Logged("catalog", 0, ok)
       /\ IF ok THEN pc' = "validate" /\ exitCode' = exitCode ELSE Exit(1)
  /\ UNCHANGED <<env, units, todo, gi, cache, PROCESSED, FAILED, b64, manifest, loader, par, ldr, rnd>>

P004Validate_warnOnly ==
  /\ prog = "p004" /\ Running /\ pc = "validate"
  /\ Logged("validate", 0, TRUE)
  /\ Exit(0)
  /\ UNCHANGED <<env, units, todo, gi, cache, PROCESSED, FAILED, b64, manifest, loader, index, par, ldr, rnd>>

\* part_004 349-359: [[ -s index.html && -s manifest.json ]] or die
P004Validate ==
  /\ prog = "p004" /\ Running /\ pc = "validate"
  /\ LET ok == index.st = "full" /\ manifest.st = "written"
     IN /\ Logged("validate", 0, ok)
        /\ IF ok THEN Exit(0) ELSE Exit(1)
  /\ UNCHANGED <<env, units, todo, gi, cache, PROCESSED, FAILED, b64, manifest, loader, index, par, ldr, rnd>>

\* ================================== build-all.sh 400-610 and 612-1098
\* build-all.sh 519: `for f in "$OBF_DIR"/*.js.b64 2>/dev/null; do` is not
\* valid shell: bash reports a syntax error when it reads the loop, before
\* step 1 runs, and exits with status 2.
Die9Parse ==
  /\ prog = "die9" /\ Running /\ pc = "clean"
  /\ Logged("parse", 0, FALSE)
  /\ Exit(2)
  /\ UNCHANGED <<env, units, todo, gi, cache, PROCESSED, FAILED, b64, manifest, loader, index, par, ldr, rnd>>

\* build-all.sh 783-804, 1031-1032: prepare (die on a missing dependency),
\* clean (find "$CONF_DIR" "$PAYLOAD_DIR" -mindepth 1 -delete)
ParallelClean ==
  /\ prog = "parallel3" /\ Running /\ pc = "clean"
  /\ \E ok \in BOOLEAN :
       IF ~ok
       THEN /\ Exit(1)
            /\ Logged("env", 0, FALSE)
            /\ b64' = b64
       ELSE /\ b64' = [b \in Bases |-> NoFile]
            /\ pc' = "gen"
            /\ exitCode' = exitCode
            /\ Logged("clean", 0, TRUE)
  /\ UNCHANGED <<env, units, todo, gi, cache, PROCESSED, FAILED, manifest, loader, index, par, ldr, rnd>>

\* build-all.sh 807-816, 730-742: the loop body starts with
\* show_progress 1 4, whose last command `[[ 1 -eq 4 ]] && echo` returns 1;
\* under errexit the script ends there with status 1, before any generator.
ParallelGenerateConfigs ==
  /\ prog = "parallel3" /\ Running /\ pc = "gen"
  /\ Logged("show_progress", gi, FALSE)
  /\ Exit(1)
  /\ UNCHANGED <<env, units, todo, gi, cache, PROCESSED, FAILED, b64, manifest, loader, index, par, ldr, rnd>>

\* ========================================================= fallback loaders
\* "loaderAll" is the loader of build-all.sh 253-295, "loaderBatch" the one
\* of part_004 139-191.  The entries of the fetched manifest are 1..nfiles.

\* build-all.sh 291: Promise.all(files.map(loadScript)): all entries at once.
\* part_004 174-180 loadBatch: files.slice(i, i + batchSize), the next slice
\* only after the previous one has settled.
Slice(i) ==
  IF prog = "loaderAll" THEN 1..nfiles
  ELSE {f \in 1..nfiles : i < f /\ f <= i + batchSize}

ActiveFiles == Slice(batch)

\* files.map(loadScript), slice.map(file => loadScript(file)): one call of
\* loadScript for each entry of the mapped array, begun at once
Calling(S) == [f \in Files |-> IF f \in S THEN called[f] + 1 ELSE called[f]]

\* build-all.sh 286-293, part_004 183-189: fetch(manifest); a failure is
\* caught and logged, nothing is loaded.
LoaderManifest ==
  /\ prog \in LoaderProgs /\ Running /\ pc = "manifest"
  /\ \E ok \in BOOLEAN :
       /\ Logged("manifest", 0, ok)
       /\ IF ok THEN pc' = "loading" /\ exitCode' = exitCode ELSE Exit(0)
       /\ called' = IF ok THEN Calling(Slice(0)) ELSE called
  /\ UNCHANGED <<prog, units, build, par, nfiles, att, lst, batch, appended, rnd>>

Settled(f) == lst[f] # "idle"

\* build-all.sh 267-284, part_004 154-171: one iteration of the loop
\*   for (let i = 0; i <= retries; i++) { try { fetch; inject; return true }
\*     catch (e) { if (i === retries) console.error(...); else await backoff } }
\* att[f] is the loop counter i.
\* build-all.sh 291 passes loadScript itself to Array.prototype.map, which
\* calls it as loadScript(file, index, array): the second parameter is the
\* zero-based position of the entry, not the default.  part_004 177 calls
\* loadScript(file), so the default applies.
Retries(f) == IF prog = "loaderAll" THEN f - 1 ELSE retries

loadScript_oneMore(f) ==
  /\ prog \in LoaderProgs /\ Running /\ pc = "loading"
  /\ called[f] > 0 /\ lst[f] = "idle"
  /\ \E ok \in BOOLEAN :
       /\ Logged("fetch", f, ok)
       /\ lst' = [lst EXCEPT ![f] = IF ok THEN "loaded"
                                    ELSE IF att[f] = Retries(f) + 1 THEN "failed"
                                    ELSE "idle"]
       /\ appended' = IF ok THEN Append(appended, f) ELSE appended
  /\ att' = [att EXCEPT ![f] = @ + 1]
  /\ UNCHANGED <<prog, units, pc, exitCode, build, par, nfiles, batch, called, rnd>>

loadScript(f) ==
  /\ prog \in LoaderProgs /\ Running /\ pc = "loading"
  /\ called[f] > 0 /\ lst[f] = "idle"
  /\ \E ok \in BOOLEAN :
       /\ Logged("fetch", f, ok)
       /\ lst' = [lst EXCEPT ![f] = IF ok THEN "loaded"
                                    ELSE IF att[f] = Retries(f) THEN "failed"
                                    ELSE "idle"]
       /\ appended' = IF ok THEN Append(appended, f) ELSE appended
  /\ att' = [att EXCEPT ![f] = @ + 1]
  /\ UNCHANGED <<prog, units, pc, exitCode, build, par, nfiles, batch, called, rnd>>

loadBatch_noAwait ==
  /\ prog = "loaderBatch" /\ Running /\ pc = "loading"
  /\ batch + batchSize < nfiles
  /\ batch' = batch + batchSize
  /\ called' = Calling(Slice(batch + batchSize))
  /\ UNCHANGED <<prog, units, pc, exitCode, hist, build, par, nfiles, att, lst, appended, rnd>>

\* part_004 175: i += batchSize once the batch's Promise.all has resolved
loadBatch ==
  /\ prog = "loaderBatch" /\ Running /\ pc = "loading"
  /\ \A f \in ActiveFiles : Settled(f)
  /\ batch + batchSize < nfiles
  /\ batch' = batch + batchSize
  /\ called' = Calling(Slice(batch + batchSize))
  /\ UNCHANGED <<prog, units, pc, exitCode, hist, build, par, nfiles, att, lst, appended, rnd>>

\* The loader's promise chain ends when every entry has settled.
LoaderDone ==
  /\ prog \in LoaderProgs /\ Running /\ pc = "loading"
  /\ \A f \in ActiveFiles : Settled(f)
  /\ prog = "loaderBatch" => batch + batchSize >= nfiles
  /\ Exit(0)
  /\ UNCHANGED <<prog, units, hist, build, par, ldr, rnd>>

\* ====================================================== gen-mitm-loader.js
\* gen-configs.sh 69-78: for (const f of list) { try { await fetch; eval; log }
\* catch (e) { log } }: an entry is begun when the one before it has settled.
\* gen-configs.sh 134-147: Promise.all(list.map(inject)): every inject is
\* started at once and evaluates its payload when its own fetch has answered;
\* inject catches and logs its own failure.
inject(f) ==
  /\ prog \in TemplateLoaderProgs /\ Running /\ pc = "loading"
  /\ f \in 1..nfiles /\ lst[f] = "idle"
  /\ prog = "loaderSeq" => \A g \in 1..(f - 1) : Settled(g)
  /\ \E ok \in BOOLEAN :
       /\ Logged("fetch", f, ok)
       /\ lst' = [lst EXCEPT ![f] = IF ok THEN "loaded" ELSE "failed"]
       /\ appended' = IF ok THEN Append(appended, f) ELSE appended
  /\ att' = [att EXCEPT ![f] = @ + 1]
  /\ UNCHANGED <<prog, units, pc, exitCode, build, par, nfiles, batch, called, rnd>>

\* gen-configs.sh 79, 147: the loop, or Promise.all, has come to its end
InjectDone ==
  /\ prog \in TemplateLoaderProgs /\ Running /\ pc = "loading"
  /\ \A f \in 1..nfiles : Settled(f)
  /\ Exit(0)
  /\ UNCHANGED <<prog, units, hist, build, par, ldr, rnd>>

\* ================================= gen-mitm-loader.js 20-95: query loader
\* gen-mitm-loader.js 78-91: the manifest is fetched; a response that is not
\* ok counts as the empty array, a failed fetch or a body that is no array of
\* strings is caught at 93 and ends the loader.
QueryManifest ==
  /\ prog \in QueryProgs /\ Running /\ pc = "manifest"
  /\ \E r \in {"ok", "http", "throw"} :
       IF r = "throw"
       THEN Exit(0) /\ targets' = targets
       ELSE /\ targets' = Targets(PayloadFiles(IF r = "ok" THEN arr ELSE <<>>),
                                  getInjectList(query, hash))
            /\ pc' = "inject" /\ exitCode' = exitCode
  /\ UNCHANGED <<prog, hist, build, par, ldr, rnd, mcs, pls, dfs, arr, query, hash,
                 fetched, injected>>

\* gen-mitm-loader.js 52-68, 92: the next target; an unsafe name, a response
\* that is not ok, an empty body and a thrown error (fetch, atob) each return
\* without a push.
injectPayload ==
  /\ prog \in QueryProgs /\ Running /\ pc = "inject" /\ targets # <<>>
  /\ LET name == Head(targets)
     IN  IF ~SafeName(name)
         THEN UNCHANGED <<fetched, injected>>
         ELSE \E r \in {"ok", "http", "empty", "atob", "throw"} :
                /\ fetched' = IF r \in {"ok", "atob"} THEN fetched \cup {name} ELSE fetched
                /\ injected' = IF r = "ok" THEN Append(injected, name) ELSE injected
  /\ targets' = Tail(targets)
  /\ UNCHANGED <<prog, pc, exitCode, hist, build, par, ldr, rnd, mcs, pls, dfs, arr,
                 query, hash>>

\* gen-mitm-loader.js 92-94: the loop has come to its end
QueryDone ==
  /\ prog \in QueryProgs /\ Running /\ pc = "inject" /\ targets = <<>>
  /\ Exit(0)
  /\ UNCHANGED <<prog, hist, build, par, ldr, rnd, units>>

\* ================================================================ renderers
\* gen-shadowrocket.js 217: CONFIG.finalGroup default
finalGroup == "Proxy"

\* String(name).replace(/\s+/g, '-')
NormName(n) == IF n = "B B" THEN "B-B" ELSE n

\* Order of a.name.localeCompare(b.name) on the names that occur.
NameRank(n) ==
  CASE n = "A" -> 1 [] n = "B-B" -> 2 [] n = "NONAME" -> 3
    [] n = "undefined" -> 4 [] OTHER -> 0

\* The indexes I of `items`, ordered by name (stable).
RECURSIVE SortByName(_, _)
SortByName(items, I) ==
  IF I = {} THEN <<>>
  ELSE LET m == CHOOSE i \in I : \A j \in I :
                  \/ NameRank(items[i].name) < NameRank(items[j].name)
                  \/ /\ NameRank(items[i].name) = NameRank(items[j].name)
                     /\ i <= j
       IN <<m>> \o SortByName(items, I \ {m})

LastByName_firstWins(items, I) ==
  {i \in I : \A j \in I : items[j].name = items[i].name => i <= j}

\* Map keyed by name, filled in input order: the last entry of a name wins.
LastByName(items, I) ==
  {i \in I : \A j \in I : items[j].name = items[i].name => j <= i}

\* One comma-separated segment of a line: `key=val`, or `val` alone when the
\* segment is positional.
Seg(k, v) == [key |-> k, val |-> v]

Pos(v) == Seg("", v)

\* `if (x) opts.push(`key=${x}`)`
Opt(k, v) == IF v = "" THEN <<>> ELSE <<Seg(k, v)>>

\* An emitted [Proxy] line `<name> = <segment>, <segment>, ...`; src is the
\* position of the input entry the line was made from.
ProxyLine(n, segs, i) == [name |-> n, segs |-> segs, src |-> i]

\* An emitted [Rule] line "<prefix><type>, <value>, <group>"; src is the
\* position of the input rule, 0 for a line the renderer adds itself.
RuleLine(pre, t, v, g, i) ==
  [prefix |-> pre, type |-> t, value |-> v, group |-> g, src |-> i]

Text(l) == <<l.prefix, l.type, l.value, l.group>>

\* seenRules / seen: keep the first occurrence of each line text.
DedupFirst(lines) ==
  LET keep == {i \in 1..Len(lines) :
                 \A j \in 1..(i - 1) : Text(lines[j]) # Text(lines[i])}
  IN MapSeq(SortedSeq(keep), LAMBDA i : lines[i])

Items(section) == section.items

Formatted(results) ==
  LET I == {i \in 1..Len(results) : results[i].res = "line"}
  IN MapSeq(SortedSeq(I), LAMBDA i : results[i].line)

WithFinal(lines, final) ==
  IF \E i \in 1..Len(lines) : lines[i].type = "FINAL" THEN lines
  ELSE Append(lines, final)

\* gen-shadowrocket.js 646-657, gen-loon.js 421-427: `RULE-SET, url, group`
\* (and the tag, which the url determines when the entry names none); an
\* entry without url or group yields no line.
ExternalLines(sets) ==
  LET I == {i \in 1..Len(sets) : sets[i].url # "" /\ sets[i].group # ""}
  IN MapSeq(SortedSeq(I),
            LAMBDA i : RuleLine("", "RULE-SET", sets[i].url, sets[i].group, 0))

\* gen-shadowrocket.js 660-662, gen-loon.js 430-433: `DOMAIN-SUFFIX, d, REJECT`
BlockLines(domains) ==
  [i \in 1..Len(domains) |-> RuleLine("", "DOMAIN-SUFFIX", domains[i], "REJECT", 0)]

\* The indexes I in the order of their keys, equal keys in index order
RECURSIVE OrderBy(_, _)
OrderBy(key, I) ==
  IF I = {} THEN <<>>
  ELSE LET m == CHOOSE i \in I : \A j \in I :
                  key[i] < key[j] \/ (key[i] = key[j] /\ i <= j)
       IN <<m>> \o OrderBy(key, I \ {m})

\* gen-shadowrocket.js 568-582 categorizeRule, and the place of the category
\* in Array.from(categoryMap.keys()).sort(): Block, Domain, External,
\* Fallback, General
categorizeRule(l) ==
  IF l.group = "REJECT" THEN 1
  ELSE IF l.type = "RULE-SET" THEN 3
  ELSE IF l.type = "FINAL" THEN 4
  ELSE IF l.type \in {"DOMAIN", "DOMAIN-SUFFIX"} THEN 2
  ELSE 5

\* gen-shadowrocket.js 756-771: with --annotate the [Rule] section lists the
\* rules category by category, the categories sorted by name
SR_ruleSection(finalRules) ==
  IF flags.annotate
  THEN LET key == [i \in 1..Len(finalRules) |-> categorizeRule(finalRules[i])]
       IN MapSeq(OrderBy(key, 1..Len(finalRules)), LAMBDA i : finalRules[i])
  ELSE finalRules

\* gen-loon.js 470-480: Block, External, Geo, General
LN_category(l) ==
  IF l.group = "REJECT" THEN "Block"
  ELSE IF l.type = "RULE-SET" THEN "External"
  ELSE "General"

\* gen-loon.js 509-519: with --annotate the [Rule] section lists the rules
\* category by category, the categories in the order Object.entries gives:
\* that of their first rule
LN_ruleSection(finalRules) ==
  IF flags.annotate
  THEN LET key == [i \in 1..Len(finalRules) |->
                     CHOOSE j \in 1..i :
                       /\ LN_category(finalRules[j]) = LN_category(finalRules[i])
                       /\ \A k \in 1..(j - 1) :
                            LN_category(finalRules[k]) # LN_category(finalRules[i])]
       IN MapSeq(OrderBy(key, 1..Len(finalRules)), LAMBDA i : finalRules[i])
  ELSE finalRules

Output_splitIgnoresDry(content) ==
  IF flags.dry /\ ~flags.splitRules
    THEN /\ stdout' = content
         /\ UNCHANGED <<conf, sideFiles>>
    ELSE /\ conf' = content
         /\ sideFiles' = {k \in {"rules", "json"} :
                            \/ k = "rules" /\ flags.splitRules
                            \/ k = "json" /\ flags.emitJson}
         /\ stdout' = stdout

\* gen-shadowrocket.js 897-926, gen-loon.js 600-620: with --dry the content
\* goes to standard output; else the config file is written, then the
\* fragments under rules/ if --split-rules and <output>.json if --emit-json.
Output(content) ==
  IF flags.dry
    THEN /\ stdout' = content
         /\ UNCHANGED <<conf, sideFiles>>
    ELSE /\ conf' = content
         /\ sideFiles' = {k \in {"rules", "json"} :
                            \/ k = "rules" /\ flags.splitRules
                            \/ k = "json" /\ flags.emitJson}
         /\ stdout' = stdout

\* ------------------------------------------------------ gen-shadowrocket.js
\* gen-shadowrocket.js 374-383: a required field is null or ''
SR_missing(p) == p.name = "" \/ p.type = "" \/ p.host = "" \/ p.port = ""

\* gen-shadowrocket.js 364-403 normalizeProxy, for an entry with all fields
\* (the only type that occurs, socks5, is supported and already lower case)
SR_normalizeProxy(p) == [p EXCEPT !.name = NormName(@)]

\* gen-shadowrocket.js 518-566 formatRule
SR_formatRule(r, i) ==
  IF r.type = ""
  THEN [res |-> "invalid", line |-> RuleLine("", "", "", "", i)]
  ELSE IF r.type = "MATCH"
  THEN [res |-> "null", line |-> RuleLine("", "", "", "", i)]
  ELSE IF r.type = "FINAL"
  THEN [res |-> "line",
        line |-> RuleLine("", "FINAL", "", IF r.group # "" THEN r.group ELSE finalGroup, i)]
  ELSE IF r.value = ""
  THEN [res |-> "invalid", line |-> RuleLine("", "", "", "", i)]
  ELSE [res |-> "line",
        line |-> RuleLine("", r.type, r.value,
                          IF r.group # "" THEN r.group ELSE finalGroup, i)]

\* gen-shadowrocket.js 405-505 generateProxyLine, for a socks5 entry:
\* `${name} = ${type}`, `host=${host}`, `port=${port}`, then `username=` and
\* `password=` when the entry has them, joined with ', '
generateProxyLine(p) ==
  <<Pos(p.type), Seg("host", p.host), Seg("port", p.port)>>
    \o Opt("username", p.user) \o Opt("password", p.pass)

\* gen-shadowrocket.js 607-619
SR_proxyLines(items) ==
  LET norm == [i \in 1..Len(items) |-> SR_normalizeProxy(items[i])]
      kept == {i \in 1..Len(items) : ~SR_missing(items[i])}
  IN MapSeq(SortByName(norm, LastByName(norm, kept)),
            LAMBDA i : ProxyLine(norm[i].name, generateProxyLine(norm[i]), i))

SR_policyLines_dropUnknown(items) ==
  LET I == {i \in 1..Len(items) : items[i].members # <<>>}
  IN MapSeq(SortedSeq(I), LAMBDA i : [items[i] EXCEPT !.members = SelectSeq(@, LAMBDA m : m = "A")])

\* gen-shadowrocket.js 626-635: groups without members are skipped
SR_policyLines(items) ==
  LET I == {i \in 1..Len(items) : items[i].members # <<>>}
  IN MapSeq(SortedSeq(I), LAMBDA i : items[i])

\* gen-shadowrocket.js 643, 665-682
SR_combinedRules(d) ==
  LET items == Items(d.rules)
      results == [i \in 1..Len(items) |-> SR_formatRule(items[i], i)]
  IN WithFinal(Formatted(results) \o ExternalLines(d.external_rule_sets)
                 \o BlockLines(d.block_domains),
               RuleLine("", "FINAL", "", finalGroup, 0))

SR_ruleLines(d) == SR_ruleSection(DedupFirst(SR_combinedRules(d)))

SR_badProxies(items) == {i \in 1..Len(items) : SR_missing(items[i])}

SR_badRules(items) ==
  {i \in 1..Len(items) : SR_formatRule(items[i], i).res = "invalid"}

\* gen-shadowrocket.js 721-731: the header of the file holds the line
\* `# Generated: ${new Date().toISOString()}`.
\* gen-shadowrocket.js 270-284 loadYamlFile: a missing input file is logged
\* with console.error and the process exits with status 1.
\* gen-shadowrocket.js 601-871 buildConfiguration, 877-965 main: in strict
\* mode the first invalid entry throws, main catches and exits 1 before any
\* file is written; otherwise invalid entries are skipped with a warning.
RenderShadowrocket ==
  /\ prog = "shadowrocket" /\ Running /\ pc = "render"
  /\ LET ps == Items(doc.proxies)
         rs == Items(doc.rules)
         es == doc.external_rule_sets
         bad == {<<"proxy", i>> : i \in SR_badProxies(ps)}
                  \cup {<<"rule", i>> : i \in SR_badRules(rs)}
                  \cup {<<"external", i>> : i \in {k \in 1..Len(es) :
                                                    es[k].url = "" \/ es[k].group = ""}}
     IN IF ~haveYaml \/ (strict /\ bad # {})
        THEN /\ Logged("render", 0, FALSE)
             /\ Exit(1)
             /\ stderr' = TRUE
             /\ UNCHANGED <<conf, warned, stdout, sideFiles>>
        ELSE /\ Logged("render", 0, TRUE)
             /\ Exit(0)
             /\ stderr' = stderr
             /\ warned' = bad
             /\ Output([st |-> "written",
                        stamp |-> now,
                        proxyLines |-> SR_proxyLines(ps),
                        policyLines |-> SR_policyLines(Items(doc.groups)),
                        ruleLines |-> SR_ruleLines(doc)])
  /\ UNCHANGED <<prog, units, build, par, ldr, doc, strict, haveYaml, now, runs, prev, flags>>

\* -------------------------------------------------------------- gen-loon.js
\* gen-loon.js 254-259 normalizeProxy
LN_normalizeProxy(p) ==
  [p EXCEPT !.name = NormName(IF @ = "" THEN "NONAME" ELSE @),
            !.type = IF @ = "" THEN "socks5" ELSE @]

\* gen-loon.js 284-313 formatRule
LN_formatRule(r, i) ==
  IF r.type = ""
  THEN [res |-> "invalid", line |-> RuleLine("", "", "", "", i)]
  ELSE IF r.type = "MATCH"
  THEN [res |-> "null", line |-> RuleLine("", "", "", "", i)]
  ELSE IF r.type = "FINAL"
  THEN [res |-> "line",
        line |-> RuleLine("", "FINAL", "", IF r.group # "" THEN r.group ELSE "Proxy", i)]
  ELSE IF r.value = "" \/ r.group = ""
  THEN [res |-> "invalid", line |-> RuleLine("", "", "", "", i)]
  ELSE [res |-> "line", line |-> RuleLine("", r.type, r.value, r.group, i)]

\* gen-loon.js 261-274 loonProxyLine: [type, host, port].filter(Boolean)
\* drops a missing host or port from the line; then the options
loonProxyLine(p) ==
  SelectSeq(<<Pos(p.type), Pos(p.host), Pos(p.port)>>, LAMBDA s : s.val # "")
    \o Opt("username", p.user) \o Opt("password", p.pass)

\* gen-loon.js 402-406
LN_proxyLines(items) ==
  LET norm == [i \in 1..Len(items) |-> LN_normalizeProxy(items[i])]
  IN MapSeq(SortByName(norm, LastByName(norm, 1..Len(items))),
            LAMBDA i : ProxyLine(norm[i].name, loonProxyLine(norm[i]), i))

\* gen-loon.js 415-451
LN_combinedRules(d) ==
  LET items == Items(d.rules)
      results == [i \in 1..Len(items) |-> LN_formatRule(items[i], i)]
  IN WithFinal(Formatted(results) \o ExternalLines(d.external_rule_sets)
                 \o BlockLines(d.block_domains),
               RuleLine("", "FINAL", "", "Proxy", 0))

LN_ruleLines(d) == LN_ruleSection(DedupFirst(LN_combinedRules(d)))

RenderLoon_defaultsMissingYaml ==
  /\ prog = "loon" /\ Running /\ pc = "render"
  /\ LET rs == Items(doc.rules)
         bad == {i \in 1..Len(rs) : LN_formatRule(rs[i], i).res = "invalid"}
     IN IF strict /\ bad # {}
        THEN /\ Logged("render", 0, FALSE)
             /\ Exit(1)
             /\ stderr' = TRUE
             /\ UNCHANGED <<conf, stdout, sideFiles>>
        ELSE /\ Logged("render", 0, TRUE)
             /\ Exit(0)
             /\ stderr' = stderr
             /\ Output([st |-> "written",
                        stamp |-> now,
                        proxyLines |-> LN_proxyLines(Items(doc.proxies)),
                        policyLines |-> Items(doc.groups),
                        ruleLines |-> LN_ruleLines(doc)])
  /\ UNCHANGED <<prog, units, build, par, ldr, doc, strict, warned, haveYaml, now, runs, prev, flags>>

\* gen-loon.js 491-495: the header of the file holds the line
\* `# Timestamp: ${new Date().toISOString()}`.
\* gen-loon.js 229-234 loadYAML: readFileSync throws when the input file is
\* missing.  398-587 build, 596-640 main: otherwise only formatRule throws,
\* and only in strict mode; a rule it rejects otherwise is dropped without a
\* message.  main catches what is thrown, prints it with console.error and
\* exits with status 1 before any file is written.
RenderLoon ==
  /\ prog = "loon" /\ Running /\ pc = "render"
  /\ LET rs == Items(doc.rules)
         bad == {i \in 1..Len(rs) : LN_formatRule(rs[i], i).res = "invalid"}
     IN IF ~haveYaml \/ (strict /\ bad # {})
        THEN /\ Logged("render", 0, FALSE)
             /\ Exit(1)
             /\ stderr' = TRUE
             /\ UNCHANGED <<conf, stdout, sideFiles>>
        ELSE /\ Logged("render", 0, TRUE)
             /\ Exit(0)
             /\ stderr' = stderr
             /\ Output([st |-> "written",
                        stamp |-> now,
                        proxyLines |-> LN_proxyLines(Items(doc.proxies)),
                        policyLines |-> Items(doc.groups),
                        ruleLines |-> LN_ruleLines(doc)])
  /\ UNCHANGED <<prog, units, build, par, ldr, doc, strict, warned, haveYaml, now, runs, prev, flags>>

\* ------------------------------------------- gen-conf.js (rotate-headers.js)
\* A template literal prints a missing field as "undefined".
Undef(x) == IF x = "" THEN "undefined" ELSE x

\* rotate-headers.js 53-61 buildProxySections: the line is named by the key
\* of Object.entries(proxies), for a list the zero-based position:
\* `${key} = ${type}, ${host}, ${port}, ${user || ''}, ${pass || ''}`
GC_proxyLines(items) ==
  [i \in 1..Len(items) |->
     ProxyLine(ToString(i - 1),
               <<Pos(Undef(items[i].type)), Pos(Undef(items[i].host)),
                 Pos(Undef(items[i].port)), Pos(items[i].user),
                 Pos(items[i].pass)>>, i)]

\* rotate-headers.js 68-72 buildRules
GC_ruleLines(items) ==
  [i \in 1..Len(items) |->
     RuleLine("DOMAIN-", Undef(items[i].type), Undef(items[i].value),
              Undef(items[i].group), i)]

\* rotate-headers.js 35-42 loadYAML: a read error is printed with
\* console.error and the process exits with status 1.
\* rotate-headers.js 90-124 main: yamlConf.proxies.us and
\* buildRules(yamlConf.rules) dereference the sections without a default, so
\* an absent proxies or rules section is an uncaught TypeError (status 1)
\* before writeFileSync.  groups falls back to {}.
RenderGenConf ==
  /\ prog = "genconf" /\ Running /\ pc = "render"
  /\ IF ~haveYaml \/ doc.proxies.st = "absent" \/ doc.rules.st = "absent"
     THEN /\ Logged("render", 0, FALSE)
          /\ Exit(1)
          /\ stderr' = TRUE
          /\ conf' = conf
     ELSE /\ Logged("render", 0, TRUE)
          /\ Exit(0)
          /\ stderr' = stderr
          /\ conf' = [st |-> "written",
                      stamp |-> 0,
                      proxyLines |-> GC_proxyLines(Items(doc.proxies)),
                      policyLines |-> Items(doc.groups),
                      ruleLines |-> GC_ruleLines(Items(doc.rules))]
  /\ UNCHANGED <<prog, units, build, par, ldr, doc, strict, warned, haveYaml, now, runs, prev,
                 flags, stdout, sideFiles>>

\* ------------------------------------------------------------- gen-stash.js
\* gen-stash.js 511-522 (v2.1.0) and 824-838 (v3.0.0): the object literals
\* use unquoted property names containing a hyphen (mixed-port:, socks-port:,
\* allow-lan:, log-level:).  node rejects the file with a SyntaxError when it
\* loads it: status 1 for every input, and no stash file is written.
RenderStash ==
  /\ prog = "stash" /\ Running /\ pc = "render"
  /\ Logged("render", 0, FALSE)
  /\ Exit(1)
  /\ stderr' = TRUE
  /\ UNCHANGED <<prog, units, build, par, ldr, doc, strict, conf, warned, haveYaml, now, runs, prev,
                 flags, stdout, sideFiles>>

\* gen-stash.js 434-455 formatRules: `type,value,group`; a rule that lacks
\* one of the three is skipped
formatRules(items) ==
  LET I == {i \in 1..Len(items) :
              items[i].type # "" /\ items[i].value # "" /\ items[i].group # ""}
  IN MapSeq(SortedSeq(I),
            LAMBDA i : RuleLine("", items[i].type, items[i].value, items[i].group, i))

\* gen-stash.js 477-478: ruleset.name or `ruleset-` and a digest of the url
ProviderName(url) == <<"ruleset", url>>

\* gen-stash.js 462-502 processRuleProviders: the providers it returns, and
\* the rules it pushes onto the array `rules` of the master document
processRuleProviders(ers) ==
  LET I == {i \in 1..Len(ers) : ers[i].url # "" /\ ers[i].group # ""}
  IN [providers |-> {[name |-> ProviderName(ers[i].url), url |-> ers[i].url] : i \in I},
      pushed |-> MapSeq(SortedSeq(I),
                        LAMBDA i : RuleLine("", "RULE-SET", ProviderName(ers[i].url),
                                            ers[i].group, 0))]

\* gen-stash.js 654-670: stashConfig.rules is formatRules(rules), computed
\* before processRuleProviders pushes onto `rules`; the providers are set;
\* MATCH,DIRECT is appended when no formatted rule is a MATCH.
generateConfig ==
  /\ prog \in StashProgs /\ Running /\ pc = "render"
  /\ LET formattedRules == formatRules(Items(doc.rules))
         ruleProviders == processRuleProviders(doc.external_rule_sets)
     IN conf' = [st |-> "written",
                 stamp |-> now,
                 proxyLines |-> <<>>,
                 policyLines |-> <<>>,
                 ruleLines |-> IF \E k \in DOMAIN formattedRules :
                                    formattedRules[k].type = "MATCH"
                               THEN formattedRules
                               ELSE Append(formattedRules,
                                           RuleLine("", "MATCH", "", "DIRECT", 0)),
                 providers |-> ruleProviders.providers,
                 pushed |-> ruleProviders.pushed]
  /\ Logged("render", 0, TRUE)
  /\ Exit(0)
  /\ UNCHANGED <<prog, units, build, par, ldr, doc, strict, warned, haveYaml, stderr, now,
                 runs, prev, flags, stdout, sideFiles>>

\* Largest number of runs of a generator on one input.
MaxRuns == 2

\* The generator is started again, later, on the same input with the same
\* options and environment (gen-shadowrocket.js 877-965 main, gen-loon.js
\* 596-640 main, rotate-headers.js 90-124 main).  The file of the run before
\* is kept aside for comparison.
RenderAgain ==
  /\ prog \in RenderProgs /\ ~Running /\ exitCode = 0
  /\ runs < MaxRuns
  /\ runs' = runs + 1
  /\ now' = now + 1
  /\ prev' = conf
  /\ conf' = NoConf
  /\ stdout' = NoConf
  /\ sideFiles' = {}
  /\ warned' = {}
  /\ exitCode' = -1
  /\ pc' = "render"
  /\ UNCHANGED <<prog, units, hist, build, par, ldr, doc, strict, haveYaml, stderr, flags>>

\* ======================================================= gen-mobileconfig.js
Thrown(msg) == [ok |-> FALSE, err |-> msg, value |-> <<>>]

Returned(v) == [ok |-> TRUE, err |-> "", value |-> v]

Includes(sq, x) == \E i \in DOMAIN sq : sq[i] = x

\* Array.from(new Set(final)): gen-mobileconfig.js 655
Dedup(sq) == SelectSeq([i \in DOMAIN sq |-> IF \E j \in 1..(i - 1) : sq[j] = sq[i] THEN "" ELSE sq[i]],
                       LAMBDA x : x # "")

\* gen-mobileconfig.js 604-644: the nextdns branch of resolveProviders.  The
\* product of make(id) is stored over the factory; a table whose nextdns entry
\* is already a product has no make, so the call is a TypeError.
configureNextDNS(P, A) ==
  IF ~P["nextdns"].make \/ A.nextdnsId = ""
    THEN [presets |-> P, out |-> Thrown("NextDNS configuration failed")]
    ELSE [presets |-> [P EXCEPT !["nextdns"] = PresetSpec(A.nextdnsId, A.domains)],
          out |-> Returned(<<>>)]

\* gen-mobileconfig.js 550-656 resolveProviders: the list of --providers, the
\* nextdns entry configured in PROVIDER_PRESETS, unknown names rejected.
resolveProviders(P, A) ==
  LET list == A.providers
      nd   == IF Includes(list, "nextdns") THEN configureNextDNS(P, A)
              ELSE [presets |-> P, out |-> Returned(<<>>)]
  IN  IF ~nd.out.ok THEN nd
      ELSE IF \E i \in DOMAIN list : list[i] \notin DOMAIN P
        THEN [presets |-> nd.presets, out |-> Thrown("Unknown provider")]
        ELSE [presets |-> nd.presets, out |-> Returned(Dedup(list))]

\* gen-mobileconfig.js 872-892: --domains is appended to the
\* supplementalMatchDomains of every selected entry of PROVIDER_PRESETS.
applyGlobalDomains(P, providers, A) ==
  [n \in DOMAIN P |->
     IF Includes(providers, n) /\ ~P[n].make /\ A.domains # <<>>
       THEN [P[n] EXCEPT !.domains = @ \o A.domains]
       ELSE P[n]]

\* gen-mobileconfig.js 895-916: one DoH payload per provider, from its entry
buildPayloads(P, providers) ==
  [i \in DOMAIN providers |->
     [provider |-> providers[i], id |-> P[providers[i]].id,
      domains |-> P[providers[i]].domains]]

\* A host calls the exported resolveProviders (gen-mobileconfig.js 550-656);
\* what it throws is delivered to the caller.
MobileResolve ==
  /\ prog \in MobileProgs /\ pc = "resolveProviders" /\ Running
  /\ Len(returned) < MaxCalls
  /\ LET r == resolveProviders(PROVIDER_PRESETS, ARGS)
     IN  /\ PROVIDER_PRESETS' = r.presets
         /\ returned' = Append(returned, r.out)
  /\ UNCHANGED <<prog, pc, exitCode, hist, build, par, ldr, rnd, pls, dfs, qld, ARGS>>

\* gen-mobileconfig.js 822-1005 main: resolve the providers, apply --domains,
\* build the payloads; an exception ends the process with status 1.
MobileMain ==
  /\ prog \in MobileProgs /\ pc = "main" /\ Running
  /\ Len(returned) < MaxCalls
  /\ LET r == resolveProviders(PROVIDER_PRESETS, ARGS)
         P == applyGlobalDomains(r.presets, r.out.value, ARGS)
     IN  IF r.out.ok
           THEN /\ PROVIDER_PRESETS' = P
                /\ returned' = Append(returned, Returned(buildPayloads(P, r.out.value)))
                /\ UNCHANGED <<exitCode, stderr>>
           ELSE /\ PROVIDER_PRESETS' = r.presets
                /\ returned' = Append(returned, r.out)
                /\ exitCode' = 1
                /\ stderr' = TRUE
  /\ UNCHANGED <<prog, pc, hist, build, par, ldr, doc, strict, conf, warned,
                 haveYaml, now, runs, prev, flags, stdout, sideFiles, pls, dfs, qld, ARGS>>

\* The host process ends.
MobileExit ==
  /\ prog \in MobileProgs /\ Running
  /\ returned # <<>>
  /\ exitCode' = 0
  /\ UNCHANGED <<prog, pc, hist, build, par, ldr, rnd, units>>

\* ================================ build-all.sh 612-1098: process_payload
\* build-all.sh 745-750 hash_content: mtime, size and sha256 of the source
\* file; the build options are no part of the key.
hash_content(c) == c

\* build-all.sh 838-872 process_payload, for a source that holds content c:
\* a cache file under the key is copied, else the source is encoded as
\* ENABLE_COMPRESSION and the presence of gzip say, and the result cached.
process_payload ==
  /\ prog \in PayloadProgs /\ Running /\ pc = "payload"
  /\ \E c \in Contents, gzip \in BOOLEAN, ok \in BOOLEAN :
       LET key == hash_content(c)
           gz  == ENABLE_COMPRESSION /\ gzip
       IN  IF cache_file[key].st # "absent"
             THEN /\ encoded_file' = cache_file[key]
                  /\ echoed' = [out |-> "CACHE_HIT", content |-> c, gzip |-> gzip]
                  /\ UNCHANGED <<cache_file, hist>>
           ELSE IF ok
             THEN /\ encoded_file' = Encoded(c, gz)
                  /\ cache_file' = [cache_file EXCEPT ![key] = Encoded(c, gz)]
                  /\ echoed' = [out |-> IF gz THEN "BUILT_COMPRESSED" ELSE "BUILT",
                                content |-> c, gzip |-> gzip]
                  /\ UNCHANGED hist
             ELSE /\ echoed' = [out |-> "FAILED", content |-> c, gzip |-> gzip]
                  /\ Logged("encode", c, FALSE)
                  /\ UNCHANGED <<cache_file, encoded_file>>
  /\ pc' = "built"
  /\ UNCHANGED <<prog, exitCode, build, par, ldr, rnd, mcs, dfs, qld, ENABLE_COMPRESSION, builds>>

\* build-all.sh 799-804, 1077-1091: the next build starts with its own
\* options: --no-compression clears ENABLE_COMPRESSION, --no-cache empties the
\* cache directory, clean empties the payload directory.  It is a new run of
\* the script: what the run before logged is not part of it.
PayloadNextBuild ==
  /\ prog \in PayloadProgs /\ Running /\ pc = "built"
  /\ builds < MaxBuilds
  /\ builds' = builds + 1
  /\ ENABLE_COMPRESSION' \in BOOLEAN
  /\ \E noCache \in BOOLEAN :
       cache_file' = IF noCache THEN [k \in Contents |-> NoPayload] ELSE cache_file
  /\ encoded_file' = NoPayload
  /\ echoed' = NotCalled
  /\ failedOps' = {} /\ retried' = {} /\ ranAfterFail' = FALSE
  /\ pc' = "payload"
  /\ UNCHANGED <<prog, exitCode, build, par, ldr, rnd, mcs, dfs, qld>>

\* build-all.sh 913-915: process_all_payloads dies on a FAILED line, else the
\* build goes on to its end.
PayloadExit ==
  /\ prog \in PayloadProgs /\ Running /\ pc = "built"
  /\ exitCode' = IF echoed.out = "FAILED" THEN 1 ELSE 0
  /\ UNCHANGED <<prog, pc, hist, build, par, ldr, rnd, units>>

\* ============================ --define (gen-shadowrocket.js, gen-loon.js)
\* String.prototype.split(sep): the pieces between the separators
RECURSIVE split(_, _)
split(sq, sep) ==
  IF \A i \in DOMAIN sq : sq[i] # sep THEN <<sq>>
  ELSE LET i == CHOOSE k \in DOMAIN sq : sq[k] = sep /\ \A j \in 1..(k - 1) : sq[j] # sep
       IN  <<SubSeq(sq, 1, i - 1)>> \o split(SubSeq(sq, i + 1, Len(sq)), sep)

\* gen-shadowrocket.js 50-73, gen-loon.js 111-137 parseArgs: a token that does
\* not start with -- is positional; else [key, rawValue] = the first two
\* pieces of token.slice(2).split('='), and for the key define the rawValue,
\* if there is one, is pushed on args.define.
RECURSIVE parseArgs(_)
parseArgs(av) ==
  IF av = <<>> THEN [define |-> <<>>, positional |-> <<>>]
  ELSE LET token == Head(av)
           args  == parseArgs(Tail(av))
           parts == split(Tail(token), "=")
       IN  IF Head(token) # "--"
             THEN [args EXCEPT !.positional = <<token>> \o @]
           ELSE IF parts[1] = <<"define">> /\ Len(parts) >= 2
             THEN [args EXCEPT !.define = <<parts[2]>> \o @]
           ELSE args

\* gen-shadowrocket.js 236-247, gen-loon.js 208-215: a pair of args.define
\* with an '=' in it sets the name before the '=' to the text after it; the
\* last such pair wins.
SUBSTITUTION_MAP(define) ==
  [k \in VarNames |->
     LET eq(pair) == IF \E i \in DOMAIN pair : pair[i] = "="
                     THEN CHOOSE i \in DOMAIN pair :
                            pair[i] = "=" /\ \A j \in 1..(i - 1) : pair[j] # "="
                     ELSE 0
         I == {i \in DOMAIN define :
                 eq(define[i]) # 0 /\ SubSeq(define[i], 1, eq(define[i]) - 1) = <<k>>}
         last == CHOOSE i \in I : \A j \in I : j <= i
     IN  IF I = {} THEN [has |-> FALSE, value |-> <<>>]
         ELSE [has |-> TRUE,
               value |-> SubSeq(define[last], eq(define[last]) + 1, Len(define[last]))]]

\* gen-shadowrocket.js 249-264 substituteVariables, gen-loon.js 218-224: every
\* ${NAME} becomes the --define value, else the environment's, else nothing.
substituteVariables(text, map, penv) ==
  [i \in DOMAIN text |->
     IF text[i].var = "" THEN text[i].text
     ELSE IF map[text[i].var].has THEN map[text[i].var].value
     ELSE IF penv[text[i].var] # "" THEN <<penv[text[i].var]>>
     ELSE <<>>]

\* gen-shadowrocket.js 270-295 loadYamlFile: the file is read and its
\* variables substituted before it is parsed.
loadYamlFile ==
  /\ prog \in DefineProgs /\ Running /\ pc = "load"
  /\ substituted' = substituteVariables(YamlText, SUBSTITUTION_MAP(parseArgs(argv).define),
                                        environ)
  /\ Exit(0)
  /\ UNCHANGED <<prog, hist, build, par, ldr, rnd, mcs, pls, qld, argv, environ>>

\* =================================================================== claims
ManifestEntries == DOMAIN manifest.files

\* An entry names the file <b>.js.b64, as a bare name or as a path.
Names(e, b) == e.form \in {"name", "path"} /\ e.base = b

\* C1: once a build has written manifest.json, the manifest and the
\* obfuscated directory agree: every *.js.b64 present is listed exactly once
\* and every entry names a *.js.b64 that is present.
C1_ManifestMatchesDirectory ==
  (prog \in BuildProgs /\ manifest.st = "written") =>
    /\ \A b \in Present(b64) :
         Cardinality({i \in ManifestEntries : Names(manifest.files[i], b)}) = 1
    /\ \A i \in ManifestEntries :
         \E b \in Present(b64) : Names(manifest.files[i], b)

\* C2: no two parallel workers write the same output file.
C2_WorkersShareNoFile ==
  \A b \in Bases : Cardinality(writers[b]) <= 1

C4_NoRetryAnywhere == retried = {}

\* C4 (amended): the orchestrators and renderers never attempt an operation
\* again after it has failed; the only operation attempted again is the
\* fallback loaders' fetch of a manifest entry.
C4_OnlyLoaderFetchRetries ==
  /\ prog \notin LoaderProgs => retried = {}
  /\ \A op \in retried : op.step = "fetch"

\* C4 witness: a nine-step build whose first generator failed has run to
\* its end without attempting anything again.
C4_FailedOnceAndFinished ==
  prog = "nine" /\ exitCode = 0 /\ Op("gen", 1) \in failedOps /\ retried = {}

\* C5 (as stated): a build exits 0 only if manifest.json and index.html are
\* non-empty and no *.js.b64 has zero bytes.
C5_ExitZeroMeansArtifactsNonEmpty ==
  (prog \in BuildProgs /\ exitCode = 0) =>
    /\ manifest.st = "written"
    /\ index.st = "full"
    /\ \A b \in Bases : b64[b].st # "empty"

\* C5 (amended): the parallel pipeline exits 0 only if index.html and
\* manifest.json are non-empty, and the master orchestrator only if
\* manifest.json is non-empty and no *.js.b64 has zero bytes.
C5_DyingValidations ==
  /\ (prog = "p004" /\ exitCode = 0) =>
       index.st = "full" /\ manifest.st = "written"
  /\ (prog = "p003" /\ exitCode = 0) =>
       manifest.st = "written" /\ \A b \in Bases : b64[b].st # "empty"

\* C5 witness: the parallel pipeline copied an empty index template and its
\* final validation ended the build with status 1.
C5_EmptyIndexFailsBuild ==
  prog = "p004" /\ index.st = "empty" /\ exitCode = 1 /\ manifest.st = "written"

\* C6: in the caching orchestrator a payload that fails is skipped and the
\* loop goes on to the remaining payloads; the final exit status is 1 exactly
\* when at least one payload failed and none was processed, and 0 otherwise.
C6_CachingExitStatus ==
  /\ (prog = "caching" /\ pc = "obf") => Running
  /\ (prog = "caching" /\ pc = "end") =>
       /\ PROCESSED + FAILED = Cardinality(srcs)
       /\ exitCode \in {0, 1}
       /\ exitCode = 1 <=> (FAILED > 0 /\ PROCESSED = 0)

\* C6 witness: the caching orchestrator ends with status 0 although a
\* payload failed, because another one was processed.
C6_PartialFailureExitsZero ==
  prog = "caching" /\ pc = "end" /\ FAILED > 0 /\ PROCESSED > 0 /\ exitCode = 0

\* C7: a step in which a payload fails to obfuscate leaves every *.js.b64
\* as it was: the files written for other payloads are kept unchanged and no
\* .js.b64 file is left behind for the failed payload.
C7_FailureLeavesNoPayloadFile ==
  [][(prog \in BuildProgs
        /\ \E op \in failedOps' \ failedOps : op.step \in {"obf", "read"})
       => (b64' = b64 /\ workerOut' = workerOut)]_vars

RuleIncomplete(r) == r.group = "" \/ (r.type # "FINAL" /\ r.value = "")

\* C8: a rule object that lacks its value or its group never yields a rule
\* line.
C8_NoLineForIncompleteRule ==
  prog \in RenderProgs =>
    \A k \in DOMAIN conf.ruleLines :
      conf.ruleLines[k].src # 0 =>
        ~RuleIncomplete(doc.rules.items[conf.ruleLines[k].src])

\* C9: a proxy that lacks name, type, host or port never yields a proxy line.
C9_NoLineForIncompleteProxy ==
  prog \in RenderProgs =>
    \A k \in DOMAIN conf.proxyLines :
      ~SR_missing(doc.proxies.items[conf.proxyLines[k].src])

NothingListed(d) ==
  d.proxies.st # "list" /\ d.rules.st # "list" /\ d.groups.st # "list"

\* The proxy names of the [Proxy] section of the written config.
EmittedNames == {conf.proxyLines[k].name : k \in DOMAIN conf.proxyLines}

\* The member names of the groups of the written config.
EmittedMembers ==
  UNION {{conf.policyLines[k].members[j] : j \in DOMAIN conf.policyLines[k].members} :
           k \in DOMAIN conf.policyLines}

C13_Socks5LineIsPositional ==
  (prog \in {"shadowrocket", "genconf"} /\ conf.st = "written") =>
    \A i \in DOMAIN doc.proxies.items :
      LET p == doc.proxies.items[i] IN
      (~SR_missing(p) /\ p.user # "" /\ p.pass # "") =>
        \E k \in DOMAIN conf.proxyLines :
          /\ conf.proxyLines[k].name = p.name
          /\ conf.proxyLines[k].segs =
               <<Pos("socks5"), Pos(p.host), Pos(p.port), Pos(p.user), Pos(p.pass)>>

\* C12: a generator run twice, at different times, on the same input with
\* the same options and environment writes the same bytes both times.
C12_RerunIsByteIdentical ==
  (prog \in RenderProgs /\ runs > 1 /\ conf.st = "written") => conf = prev

C10_EmptySectionsRender ==
  (prog \in RenderProgs /\ ~Running /\ NothingListed(doc)) =>
    exitCode = 0 /\ conf.st = "written"

\* C15: a call of a renderer entry point (resolveProviders or main of the
\* mobileconfig generator) leaves the provider presets as they were, and a
\* second call in the same process with the same arguments returns what the
\* first call returned.
C15_CallsLeavePresetsAlone ==
  [][(prog \in MobileProgs /\ returned' # returned) =>
       /\ PROVIDER_PRESETS' = PROVIDER_PRESETS
       /\ (returned # <<>> => returned'[Len(returned')] = returned[Len(returned)])]_vars

C18_EvaluatedInManifestOrder ==
  [][\A f \in Files :
       (prog \in TemplateLoaderProgs \cup LoaderProgs /\ lst[f] = "idle") =>
          /\ lst'[f] = "loaded" => \A g \in 1..(f - 1) : Settled(g)
          /\ lst'[f] = "failed" => (Op("fetch", f) \in failedOps' /\ exitCode' = -1)]_vars

\* C19: with --dry a generator prints the config on standard output and
\* creates or modifies no file: neither the config file, nor fragments under
\* rules/, nor the metadata JSON, also when --split-rules and --emit-json are
\* given with it.
C19_DryWritesNoFile ==
  (prog \in DryProgs /\ flags.dry) =>
     /\ conf.st = "absent" /\ sideFiles = {}
     /\ exitCode = 0 => stdout.st = "written"

\* C19 witness: a run with --dry --split-rules --emit-json has ended with
\* status 0 and printed a config that holds a rule line.
C19_DryRunPrinted ==
  /\ prog = "shadowrocket" /\ exitCode = 0
  /\ flags.dry /\ flags.splitRules /\ flags.emitJson
  /\ stdout.st = "written" /\ stdout.ruleLines # <<>>

\* The command line holds `--define K=V` or `--define=K=V`.
DefinesKV(av) ==
  \/ \E i \in DOMAIN av : av[i] = <<"--", "define", "=", "K", "=", "V">>
  \/ \E i \in 1..(Len(av) - 1) :
       av[i] = <<"--", "define">> /\ av[i + 1] = <<"K", "=", "V">>

\* C20: when the generator is invoked with `--define K=V` or `--define=K=V`,
\* every ${K} of the YAML source is replaced by V, whatever the environment
\* holds for K.
C20_DefineReplacesEveryOccurrence ==
  (prog \in DefineProgs /\ pc = "done" /\ DefinesKV(argv)) =>
     \A i \in DOMAIN YamlText : YamlText[i].var = "K" => substituted[i] = <<"V">>

\* C21: a MATCH rule of the input is converted to FINAL: for every input rule
\* of type MATCH with group G the written rule list holds a FINAL rule whose
\* target is G.
C21_MatchBecomesFinal ==
  (prog \in {"shadowrocket", "loon"} /\ conf.st = "written") =>
     \A i \in DOMAIN doc.rules.items :
       LET r == doc.rules.items[i]
       IN  (r.type = "MATCH" /\ r.group # "") =>
             \E k \in DOMAIN conf.ruleLines :
               conf.ruleLines[k].type = "FINAL" /\ conf.ruleLines[k].group = r.group

\* what holds of a loadScript call with retries = 2 at every moment
LoadScriptBounded(f) ==
  /\ att[f] <= retries + 1
  /\ Cardinality({k \in DOMAIN appended : appended[k] = f}) <= 1
  /\ (lst[f] = "loaded") <=> (\E k \in DOMAIN appended : appended[k] = f)
  /\ (lst[f] = "failed") => att[f] = retries + 1

\* a call that has ended makes no further attempt
LoadScriptStops(f) ==
  lst[f] # "idle" => (att'[f] = att[f] /\ lst'[f] = lst[f])

\* the manifest entries loadScript is called for with retries = 2, and those
\* among them whose call has begun
LoadScriptCalled(f) ==
  prog \in LoaderProgs /\ f \in 1..nfiles /\ Retries(f) = retries

LoadScriptBegun(f) ==
  LoadScriptCalled(f) /\ pc = "loading" /\ f \in ActiveFiles

\* C22: a call of loadScript whose retries parameter is 2 makes at most three
\* fetch attempts, makes no attempt after one has succeeded, injects the
\* payload at most once, ends (loaded or failed) and ends loaded exactly when
\* one of its attempts succeeded; it ends failed only after three attempts.
C22_LoadScriptBoundedAndEnds ==
  /\ [](\A f \in Files : LoadScriptCalled(f) => LoadScriptBounded(f))
  /\ [][\A f \in Files : LoadScriptCalled(f) => LoadScriptStops(f)]_vars
  /\ \A f \in Files : (LoadScriptBegun(f) /\ lst[f] = "idle") ~> (lst[f] # "idle")

\* a call has loaded its payload at the third attempt, another has failed
\* three times
C22_ThirdAttemptLoaded ==
  /\ prog = "loaderBatch"
  /\ \E f, g \in 1..nfiles :
       /\ att[f] = retries + 1 /\ lst[f] = "loaded"
       /\ att[g] = retries + 1 /\ lst[g] = "failed"

\* the loadScript calls that have begun and not ended
InFlight == {f \in 1..nfiles : called[f] > 0 /\ lst[f] = "idle"}

\* the batch of a manifest entry: files.slice(i, i + batchSize), i = 0, 3, ...
BatchOf(f) == (f - 1) \div batchSize

Requested(n) ==
  \/ \E k \in DOMAIN query : query[k] = n
  \/ \E k \in DOMAIN hash : hash[k] = n
  \/ IsAll(query) \/ IsAll(hash)

\* C24: in the query-driven loader every injected name is listed in the
\* manifest as <name>.b64, is requested by the inject parameter (by name or by
\* `all`), matches ^[\w.-]+\.js$ and was fetched with a non-empty body; with
\* no inject parameter nothing is injected.
C24_InjectedWereListedAndRequested ==
  prog \in QueryProgs =>
    /\ \A k \in DOMAIN injected :
         /\ \E i \in DOMAIN arr : arr[i] = withB64(injected[k])
         /\ Requested(injected[k])
         /\ SafeName(injected[k])
         /\ injected[k] \in fetched
    /\ (query = <<>> /\ hash = <<>>) => injected = <<>>

\* the name under which a renderer files an input proxy
InputName(p) ==
  IF prog = "loon" THEN LN_normalizeProxy(p).name ELSE SR_normalizeProxy(p).name

\* the input proxies a renderer does not skip
KeptProxy(p) == prog = "shadowrocket" => ~SR_missing(p)

CombinedRules ==
  IF prog = "loon" THEN LN_combinedRules(doc) ELSE SR_combinedRules(doc)

\* the place of the first occurrence of a line in combinedRules
FirstOccurrence(l) ==
  CHOOSE i \in DOMAIN CombinedRules :
    /\ Text(CombinedRules[i]) = Text(l)
    /\ \A j \in 1..(i - 1) : Text(CombinedRules[j]) # Text(l)

\* C26: the emitted rule list holds no line twice, and its lines stand in the
\* order of their first occurrences in the sequence base rules, external rule
\* sets, block rules.
C26_FirstOccurrenceOrderKept ==
  (prog \in {"shadowrocket", "loon"} /\ conf.st = "written") =>
    LET ls == conf.ruleLines
    IN  /\ \A k, l \in DOMAIN ls : Text(ls[k]) = Text(ls[l]) => k = l
        /\ \A k, l \in DOMAIN ls :
             k < l => FirstOccurrence(ls[k]) < FirstOccurrence(ls[l])

\* C27: generateConfig gives every external rule set that has url and group
\* a rule-providers entry, and a RULE-SET rule of the emitted rules that
\* names that provider and targets the rule set's group.
C27_ProviderAndRuleForEachSet ==
  (prog \in StashProgs /\ conf.st = "written") =>
    \A i \in DOMAIN doc.external_rule_sets :
      LET e == doc.external_rule_sets[i]
      IN  (e.url # "" /\ e.group # "") =>
            /\ \E p \in conf.providers : p.url = e.url
            /\ \E k \in DOMAIN conf.ruleLines :
                 /\ conf.ruleLines[k].type = "RULE-SET"
                 /\ \E p \in conf.providers :
                      p.url = e.url /\ conf.ruleLines[k].value = p.name
                 /\ conf.ruleLines[k].group = e.group

Next ==
  \/ generateConfig
  \/ QueryManifest
  \/ injectPayload
  \/ QueryDone
  \/ loadYamlFile
  \/ \E f \in Files : inject(f)
  \/ InjectDone
  \/ process_payload
  \/ PayloadNextBuild
  \/ PayloadExit
  \/ MobileResolve
  \/ MobileMain
  \/ MobileExit
  \/ RenderAgain
  \/ LoaderManifest
  \/ \E f \in Files : loadScript(f)
  \/ loadBatch
  \/ LoaderDone
  \/ RenderShadowrocket
  \/ RenderLoon
  \/ RenderGenConf
  \/ RenderStash
  \/ P003Clean
  \/ P003Generator
  \/ P003Obfuscate
  \/ P003Manifest
  \/ P003Assets
  \/ P003Validate
  \/ P004Clean
  \/ P004Generator
  \/ \E s \in Srcs : WorkerStart(s)
  \/ \E s \in Srcs : WorkerEncode(s)
  \/ \E s \in Srcs : WorkerStore(s)
  \/ P004Manifest
  \/ P004Loader
  \/ P004Assets
  \/ P004Validate
  \/ Die9Parse
  \/ ParallelClean
  \/ ParallelGenerateConfigs
  \/ NineClean
  \/ NineGenerator
  \/ NineObfuscate
  \/ NineManifest
  \/ NineLoader
  \/ NineValidate
  \/ CachingClean
  \/ CachingGenerator
  \/ CachingPayload
  \/ CachingManifest
  \/ CachingLoader
  \/ CachingTemplates
  \/ CachingExit
  \/ SixClean
  \/ SixGenerator
  \/ SixObfuscate
  \/ SixCatalog
  \/ SixValidate

Spec == Init /\ [][Next]_vars

\* The fallback loaders alone.  Each pending fetch settles and the event loop
\* runs its continuation, so a loadScript call that can step does step.
LoaderNext ==
  \/ LoaderManifest
  \/ \E f \in Files : loadScript(f)
  \/ loadBatch
  \/ LoaderDone

LoaderSpec ==
  /\ LoaderInit
  /\ [][LoaderNext]_vars
  /\ \A f \in Files : WF_vars(loadScript(f))

====
